---- MODULE Spec2Model ----
(***************************************************************************)
(* gold_digger: the TLS trust configuration (src/src/tls.rs), its use by   *)
(* the orchestrator (src/src/main.rs) and the TLS error classifier.        *)
(*                                                                         *)
(* Spec     : one run of the connection set-up, either through the         *)
(*            orchestrator's create_database_connection (entry = "cli")    *)
(*            or through the public library API (entry = "lib", "api").    *)
(* ErrSpec  : the TlsError taxonomy: construction, from_rustls_error,      *)
(*            suggest_cli_flag and the four membership queries.            *)
(***************************************************************************)
EXTENDS Integers, Sequences, FiniteSets, TLC

VARIABLES
    entry,            \* "cli": main.rs create_database_connection; "lib": direct API calls
    pc,               \* position of the run
    ca_file,          \* Option<PathBuf>: --tls-ca-file
    skip_hostname,    \* --insecure-skip-hostname-verify
    accept_invalid,   \* --allow-invalid-certificate
    verbose,          \* cli.verbose (count)
    quiet,            \* cli.quiet
    url_ok,           \* whether mysql::Opts::from_url accepts the database URL
    fs,               \* the file system: what each path holds
    fs_changes,       \* how often the environment has changed a file
    cfg_result,       \* Result<TlsConfig, TlsError> of from_cli_args
    tls_config,       \* Option<TlsConfig> handed to create_tls_connection
    ssl_result,       \* Result<Option<SslOpts>, TlsError> of to_ssl_opts
    stderr,           \* lines written to diagnostic output
    applied_opts,     \* Option<SslOpts> set on the OptsBuilder
    pool_attempts,    \* number of Pool::new calls (connection attempts)
    conn_result,      \* Result<Pool, TlsError> of the connection set-up
    feature_verbose,  \* whether the build has the "verbose" feature
    cert,             \* the end-entity certificate given to a verifier
    verify_result,    \* result of SkipHostnameVerifier::verify_server_cert
    \* ---- ErrSpec ----
    epc,              \* position of the classifier run
    rustls_error,     \* the rustls::Error given to from_rustls_error
    hostname,         \* Option<&str> given to from_rustls_error
    error,            \* the TlsError under inspection
    suggested,        \* result of suggest_cli_flag
    queries,          \* results of the membership queries asked so far
    \* ---- ValSpec ----
    vpc,              \* position of the coercion run
    value,            \* the mysql::Value given to mysql_value_to_string
    overflow_checks,  \* whether the build panics on integer overflow (debug)
    coerced,          \* outcome of mysql_value_to_string
    \* ---- OutSpec ----
    opc,              \* position of the output run
    rows,             \* Vec<mysql::Row>: the result set given to rows_to_strings
    matrix,           \* Vec<Vec<String>>: the rows given to a writer
    format,           \* "json", "csv" or "tab": the writer called
    pretty,           \* the pretty argument of json::write_with_pretty
    jw,               \* the JsonWriter: columns, first_row, pretty and its sink
    next_row,         \* index in matrix of the next row of rows_iter
    sink,             \* result and sink of csv::write or tab::write
    \* ---- ExitSpec ----
    xpc,              \* position of the exit run
    error_msg,        \* error.to_string() of the anyhow::Error
    context,          \* Option<&str> given to exit_with_error
    exit_stderr,      \* the line exit_with_error logs
    exit_code,        \* the code given to process::exit
    \* ---- IoSpec ----
    wpc,              \* position of the writer call
    io_format,        \* "csv", "tab" or "json": the writer called
    io_rows,          \* number of rows given to the writer
    written,          \* number of rows the writer has taken so far
    wtr,              \* the csv::Writer: its buffer capacity and fill
    output,           \* the sink: the operations done on it and when it fails
    io_result,        \* what the writer's call returns
    \* ---- MainSpec ----
    mpc,              \* position of main
    env,              \* what the database, the file system and the writer answer
    allow_empty,      \* cli.allow_empty
    out_file,         \* what the output file holds
    steps,            \* the calls main has made, in order
    main_exit         \* the code the process has exited with

tlsVars == <<entry, pc, ca_file, skip_hostname, accept_invalid, verbose, quiet,
             url_ok, fs, fs_changes, cfg_result, tls_config, ssl_result, stderr,
             applied_opts, pool_attempts, conn_result, feature_verbose, cert,
             verify_result>>
errVars == <<epc, rustls_error, hostname, error, suggested, queries>>
valVars == <<vpc, value, overflow_checks, coerced>>
pipeVars == <<opc, rows, matrix, format, pretty, jw, next_row, sink>>
exitVars == <<xpc, error_msg, context, exit_stderr, exit_code>>
ioVars == <<wpc, io_format, io_rows, written, wtr, output, io_result>>
mainVars == <<mpc, env, allow_empty, out_file, steps, main_exit>>
restVars == <<exitVars, ioVars, mainVars>>
outVars == <<valVars, pipeVars, restVars>>
vars == <<tlsVars, errVars, outVars>>

\* ------------------------------------------------------------------ bounds
MaxVerbose == 1
MaxFsChanges == 1

\* ------------------------------------------------------------ option/result
None == [some |-> FALSE]
Some(v) == [some |-> TRUE, val |-> v]
Ok(v) == [ok |-> TRUE, val |-> v]
Err(e) == [ok |-> FALSE, err |-> e]
Unset == [unset |-> TRUE]

\* ------------------------------------------------------------- file system
\* The empty path never exists (Path::new("").exists() is false).
EmptyPath == ""
Paths == {EmptyPath, "/etc/ssl/ca.pem", "/srv/certs"}
\* What a path can hold.
\*   missing : nothing there
\*   dir     : a directory (opens on Unix, every read fails)
\*   noperm  : a regular file the process may not open
\*   empty   : a regular file without any PEM section (zero bytes, or plain text)
\*   badpem  : a regular file with a malformed PEM section
\*   pem     : a PEM file holding one certificate
\*   bundle  : a PEM file holding two certificates
FileKinds == {"missing", "dir", "noperm", "empty", "badpem", "pem", "bundle"}

\* Path::exists
PathExists(kind) == kind # "missing"
\* File::open succeeds
FileOpens(kind) == kind \notin {"missing", "noperm"}
\* rustls_pemfile::certs(..).collect::<Result<Vec<_>,_>>() is Ok
PemParses(kind) == kind \notin {"dir", "badpem"}
\* the number of certificates rustls_pemfile::certs yields
CertCount(kind) == CASE kind = "pem" -> 1 [] kind = "bundle" -> 2 [] OTHER -> 0
\* readable as a regular file
IsReadableFile(kind) == kind \in {"empty", "badpem", "pem", "bundle"}

\* ---------------------------------------------------------------- TlsError
\* One record shape for all kinds; a field the kind does not carry is NoField
\* (or empty). A message is the sequence of the pieces format! puts together.
NoField == "<none>"
TlsErrorKinds ==
    {"CertificateValidationFailed", "CaFileNotFound", "InvalidCaFormat",
     "HandshakeFailed", "HostnameVerificationFailed", "CertificateTimeInvalid",
     "MutuallyExclusiveFlags", "ConnectionFailed", "UnsupportedTlsVersion",
     "FeatureNotEnabled", "InsecureCredentials", "InvalidSignature",
     "UnknownCertificateAuthority", "InvalidCertificatePurpose",
     "CertificateChainInvalid", "CertificateRevoked", "ProtocolVersionMismatch",
     "CipherSuiteNegotiationFailed", "ServerAlert", "PeerMisbehaved"}

TlsErrorRec(kind) ==
    [kind |-> kind, path |-> NoField, hostname |-> NoField, flags |-> <<>>,
     message |-> <<>>, alert |-> NoField, version |-> NoField]

\* The kinds that carry exactly a message
with_message(kind, message) == [TlsErrorRec(kind) EXCEPT !.message = message]

ca_file_not_found(path) ==
    [TlsErrorRec("CaFileNotFound") EXCEPT !.path = path]
invalid_ca_format(path, message) ==
    [TlsErrorRec("InvalidCaFormat") EXCEPT !.path = path, !.message = message]
hostname_verification_failed(hostname_, message) ==
    [TlsErrorRec("HostnameVerificationFailed") EXCEPT
        !.hostname = hostname_, !.message = message]
mutually_exclusive_flags(flags) ==
    [TlsErrorRec("MutuallyExclusiveFlags") EXCEPT !.flags = flags]
connection_failed(message) == with_message("ConnectionFailed", message)
unsupported_tls_version(version) ==
    [TlsErrorRec("UnsupportedTlsVersion") EXCEPT !.version = version]
server_alert(alert) == [TlsErrorRec("ServerAlert") EXCEPT !.alert = alert]

\* ------------------------------------------------------- TlsValidationMode
Platform == [tag |-> "Platform"]
CustomCa(path) == [tag |-> "CustomCa", ca_file_path |-> path]
SkipHostnameVerification == [tag |-> "SkipHostnameVerification"]
AcceptInvalid == [tag |-> "AcceptInvalid"]

TlsConfig(enabled, mode) == [enabled |-> enabled, validation_mode |-> mode]

\* [a, b, c].join(sep): the items with the separator between them
RECURSIVE Join(_, _)
Join(items, sep) ==
    IF Len(items) = 0 THEN <<>>
    ELSE IF Len(items) = 1 THEN items
    ELSE <<Head(items), sep>> \o Join(Tail(items), sep)

B2N(b) == IF b THEN 1 ELSE 0

\* from_cli_args reporting only the first conflicting pair of flags
from_cli_args_first_pair(ca, skip, accept, files) ==
    LET flag_count == B2N(ca.some) + B2N(skip) + B2N(accept)
        flags == (IF ca.some THEN <<"--tls-ca-file">> ELSE <<>>)
                 \o (IF skip THEN <<"--insecure-skip-hostname-verify">> ELSE <<>>)
                 \o (IF accept THEN <<"--allow-invalid-certificate">> ELSE <<>>)
    IN  IF flag_count > 1
        THEN Err(mutually_exclusive_flags(Join(SubSeq(flags, 1, 2), ", ")))
        ELSE IF ca.some
             THEN IF ~PathExists(files[ca.val])
                  THEN Err(ca_file_not_found(ca.val))
                  ELSE Ok(TlsConfig(TRUE, CustomCa(ca.val)))
             ELSE IF skip THEN Ok(TlsConfig(TRUE, SkipHostnameVerification))
             ELSE IF accept THEN Ok(TlsConfig(TRUE, AcceptInvalid))
             ELSE Ok(TlsConfig(TRUE, Platform))

\* from_cli_args falling back to TlsConfig::default() (disabled) without selector
from_cli_args_default_off(ca, skip, accept, files) ==
    LET flag_count == B2N(ca.some) + B2N(skip) + B2N(accept)
        flags == (IF ca.some THEN <<"--tls-ca-file">> ELSE <<>>)
                 \o (IF skip THEN <<"--insecure-skip-hostname-verify">> ELSE <<>>)
                 \o (IF accept THEN <<"--allow-invalid-certificate">> ELSE <<>>)
    IN  IF flag_count > 1
        THEN Err(mutually_exclusive_flags(Join(flags, ", ")))
        ELSE IF ca.some
             THEN IF ~PathExists(files[ca.val])
                  THEN Err(ca_file_not_found(ca.val))
                  ELSE Ok(TlsConfig(TRUE, CustomCa(ca.val)))
             ELSE IF skip THEN Ok(TlsConfig(TRUE, SkipHostnameVerification))
             ELSE IF accept THEN Ok(TlsConfig(TRUE, AcceptInvalid))
             ELSE Ok(TlsConfig(FALSE, Platform))

\* from_cli_args looking for the CA file before counting the flags
from_cli_args_existence_first(ca, skip, accept, files) ==
    LET flag_count == B2N(ca.some) + B2N(skip) + B2N(accept)
        flags == (IF ca.some THEN <<"--tls-ca-file">> ELSE <<>>)
                 \o (IF skip THEN <<"--insecure-skip-hostname-verify">> ELSE <<>>)
                 \o (IF accept THEN <<"--allow-invalid-certificate">> ELSE <<>>)
    IN  IF ca.some /\ ~PathExists(files[ca.val])
        THEN Err(ca_file_not_found(ca.val))
        ELSE IF flag_count > 1
        THEN Err(mutually_exclusive_flags(Join(flags, ", ")))
        ELSE IF ca.some THEN Ok(TlsConfig(TRUE, CustomCa(ca.val)))
        ELSE IF skip THEN Ok(TlsConfig(TRUE, SkipHostnameVerification))
        ELSE IF accept THEN Ok(TlsConfig(TRUE, AcceptInvalid))
        ELSE Ok(TlsConfig(TRUE, Platform))

\* TlsConfig::from_cli_args
from_cli_args(ca, skip, accept, files) ==
    LET flag_count == B2N(ca.some) + B2N(skip) + B2N(accept)
        flags == (IF ca.some THEN <<"--tls-ca-file">> ELSE <<>>)
                 \o (IF skip THEN <<"--insecure-skip-hostname-verify">> ELSE <<>>)
                 \o (IF accept THEN <<"--allow-invalid-certificate">> ELSE <<>>)
    IN  IF flag_count > 1
        THEN Err(mutually_exclusive_flags(Join(flags, ", ")))
        ELSE IF ca.some
             THEN IF ~PathExists(files[ca.val])
                  THEN Err(ca_file_not_found(ca.val))
                  ELSE Ok(TlsConfig(TRUE, CustomCa(ca.val)))
             ELSE IF skip THEN Ok(TlsConfig(TRUE, SkipHostnameVerification))
             ELSE IF accept THEN Ok(TlsConfig(TRUE, AcceptInvalid))
             ELSE Ok(TlsConfig(TRUE, Platform))

\* TlsConfig::display_security_warnings: the lines it writes
WarnSkipHostname ==
    <<"WARNING: Hostname verification disabled. Connection is vulnerable to man-in-the-middle attacks.",
      "   Only use this option if you understand the security implications.">>
WarnAcceptInvalid ==
    <<"DANGER: Certificate validation completely disabled!",
      "   This connection provides NO security against man-in-the-middle attacks.",
      "   Only use this for testing with self-signed certificates in secure environments.">>

\* display_security_warnings silenced by --quiet
display_security_warnings_unless_quiet(config) ==
    IF quiet THEN <<>>
    ELSE CASE config.validation_mode.tag = "SkipHostnameVerification" -> WarnSkipHostname
           [] config.validation_mode.tag = "AcceptInvalid" -> WarnAcceptInvalid
           [] OTHER -> <<>>

display_security_warnings(config) ==
    CASE config.validation_mode.tag = "SkipHostnameVerification" -> WarnSkipHostname
      [] config.validation_mode.tag = "AcceptInvalid" -> WarnAcceptInvalid
      [] OTHER -> <<>>

\* load_ca_certificates without the check for an empty certificate list
load_ca_certificates_allow_empty(path, files) ==
    LET kind == files[path] IN
    IF ~PathExists(kind) THEN Err(ca_file_not_found(path))
    ELSE IF ~FileOpens(kind)
         THEN Err(invalid_ca_format(path, <<"Cannot read certificate file: ", "io error">>))
    ELSE IF ~PemParses(kind)
         THEN Err(invalid_ca_format(path, <<"Failed to parse PEM certificates: ", "io error">>))
    ELSE Ok(CertCount(kind))

\* cert_utils::load_ca_certificates: Ok(number of certificates) or the error
load_ca_certificates(path, files) ==
    LET kind == files[path] IN
    IF ~PathExists(kind) THEN Err(ca_file_not_found(path))
    ELSE IF ~FileOpens(kind)
         THEN Err(invalid_ca_format(path, <<"Cannot read certificate file: ", "io error">>))
    ELSE IF ~PemParses(kind)
         THEN Err(invalid_ca_format(path, <<"Failed to parse PEM certificates: ", "io error">>))
    ELSE IF CertCount(kind) = 0
         THEN Err(invalid_ca_format(path, <<"No valid certificates found in file">>))
    ELSE Ok(CertCount(kind))

\* cert_utils::validate_ca_file
validate_ca_file(path, files) ==
    LET r == load_ca_certificates(path, files) IN
    IF r.ok THEN Ok(TRUE) ELSE r

\* mysql::SslOpts and the builder calls to_ssl_opts uses
SslOptsDefault ==
    [skip_domain_validation |-> FALSE, accept_invalid_certs |-> FALSE,
     root_cert_path |-> None]
with_root_cert_path(o, p) == [o EXCEPT !.root_cert_path = p]
with_danger_skip_domain_validation(o, b) == [o EXCEPT !.skip_domain_validation = b]
with_danger_accept_invalid_certs(o, b) == [o EXCEPT !.accept_invalid_certs = b]

\* to_ssl_opts building the skip-hostname options from the accept-invalid ones
to_ssl_opts_skip_accepts(config, files) ==
    LET mode == config.validation_mode
        check == IF mode.tag = "CustomCa"
                 THEN validate_ca_file(mode.ca_file_path, files)
                 ELSE Ok(TRUE)
        insecure == with_danger_skip_domain_validation(
                        with_danger_accept_invalid_certs(SslOptsDefault, TRUE), TRUE)
    IN  IF ~config.enabled THEN Ok(None)
        ELSE IF ~check.ok THEN check
        ELSE Ok(Some(
            CASE mode.tag = "Platform" -> SslOptsDefault
              [] mode.tag = "CustomCa" ->
                    with_root_cert_path(SslOptsDefault, Some(mode.ca_file_path))
              [] mode.tag = "SkipHostnameVerification" -> insecure
              [] mode.tag = "AcceptInvalid" -> insecure))

\* TlsConfig::to_ssl_opts (ssl feature)
to_ssl_opts(config, files) ==
    LET mode == config.validation_mode
        check == IF mode.tag = "CustomCa"
                 THEN validate_ca_file(mode.ca_file_path, files)
                 ELSE Ok(TRUE)
    IN  IF ~config.enabled THEN Ok(None)
        ELSE IF ~check.ok THEN check
        ELSE Ok(Some(
            CASE mode.tag = "Platform" -> SslOptsDefault
              [] mode.tag = "CustomCa" ->
                    with_root_cert_path(SslOptsDefault, Some(mode.ca_file_path))
              [] mode.tag = "SkipHostnameVerification" ->
                    with_danger_skip_domain_validation(SslOptsDefault, TRUE)
              [] mode.tag = "AcceptInvalid" ->
                    with_danger_skip_domain_validation(
                        with_danger_accept_invalid_certs(SslOptsDefault, TRUE), TRUE)))

\* SkipHostnameVerifier::verify_server_cert
\* A certificate: whether its DER is empty, whether its chain validates against
\* the verifier's root store, whether the current time is inside its validity.
Certs ==
    {c \in [empty : BOOLEAN, chain_valid : BOOLEAN, time_valid : BOOLEAN] :
        c.empty => (~c.chain_valid /\ ~c.time_valid)}
NoCert == [empty |-> TRUE, chain_valid |-> FALSE, time_valid |-> FALSE]

verify_server_cert(end_entity) ==
    IF end_entity.empty
    THEN Err("General: Empty certificate")
    ELSE Ok("ServerCertVerified")

\* The closure create_tls_connection maps a mysql error with: the error text is
\* given by the set of (lower-case) words it contains.
MysqlErrors ==
    { {"connection", "connect"},
      {"ssl", "certificate", "cert", "expired"},
      {"tls", "handshake"} }

Has(words, w) == w \in words

map_pool_error(words) ==
    IF Has(words, "ssl") \/ Has(words, "tls")
    THEN IF Has(words, "certificate") \/ Has(words, "cert")
         THEN IF Has(words, "expired") \/ Has(words, "not yet valid")
              THEN "CertificateTimeInvalid"
              ELSE IF Has(words, "hostname") \/ Has(words, "name") \/ Has(words, "san")
              THEN "HostnameVerificationFailed"
              ELSE IF Has(words, "unknown") \/ Has(words, "untrusted") \/ Has(words, "issuer")
              THEN "UnknownCertificateAuthority"
              ELSE IF Has(words, "signature") \/ Has(words, "invalid")
              THEN "InvalidSignature"
              ELSE "CertificateValidationFailed"
         ELSE IF Has(words, "handshake") THEN "HandshakeFailed"
         ELSE IF Has(words, "protocol") \/ Has(words, "version") THEN "ProtocolVersionMismatch"
         ELSE IF Has(words, "cipher") THEN "CipherSuiteNegotiationFailed"
         ELSE "ConnectionFailed"
    ELSE "ConnectionFailed"

\* The verbose-feature log line of create_tls_connection for an applied mode
verbose_log(config) ==
    CASE config.validation_mode.tag = "Platform" ->
            <<"TLS: Using platform certificate store">>
      [] config.validation_mode.tag = "CustomCa" ->
            <<"TLS: Using custom CA file: ", config.validation_mode.ca_file_path>>
      [] config.validation_mode.tag = "SkipHostnameVerification" ->
            <<"TLS: Hostname verification disabled">>
      [] config.validation_mode.tag = "AcceptInvalid" ->
            <<"TLS: Certificate validation disabled (DANGEROUS)">>

\* --------------------------------------------------------------- the run
\* The mysql::Value::NULL variant
NULL == [tag |-> "NULL"]

ValIdle ==
    /\ vpc = "idle"
    /\ value = NULL
    /\ overflow_checks = FALSE
    /\ coerced = Unset

PipeIdle ==
    /\ opc = "idle"
    /\ rows = <<>>
    /\ matrix = <<>>
    /\ format = "json"
    /\ pretty = FALSE
    /\ jw = [columns |-> <<>>, first_row |-> TRUE, pretty |-> FALSE, writer |-> <<>>]
    /\ next_row = 0
    /\ sink = Unset

\* No error is being mapped to an exit code.
ExitIdle ==
    /\ xpc = "idle"
    /\ error_msg = <<>>
    /\ context = None
    /\ exit_stderr = <<>>
    /\ exit_code = -1

\* No writer is running on a failing sink.
IoIdle ==
    /\ wpc = "idle"
    /\ io_format = "csv"
    /\ io_rows = 0
    /\ written = 0
    /\ wtr = [capacity |-> 1, buffered |-> 0]
    /\ output = [fail_at |-> 0, ops |-> 0, failed |-> FALSE, delivered |-> 0]
    /\ io_result = Unset

\* The orchestrator is not running.
MainIdle ==
    /\ mpc = "idle"
    /\ env = [file |-> "absent"]
    /\ allow_empty = FALSE
    /\ out_file = "absent"
    /\ steps = <<>>
    /\ main_exit = -1

RestIdle == ExitIdle /\ IoIdle /\ MainIdle

OutIdle == ValIdle /\ PipeIdle /\ RestIdle

ErrIdle ==
    /\ epc = "idle"
    /\ rustls_error = [variant |-> "-", inner |-> "-"]
    /\ hostname = None
    /\ error = Unset
    /\ suggested = Unset
    /\ queries = {}

InitRun ==
    /\ pc = "start"
    /\ url_ok \in BOOLEAN
    /\ fs \in {f \in [Paths -> FileKinds] : f[EmptyPath] = "missing"}
    /\ fs_changes = 0
    /\ cfg_result = Unset
    /\ tls_config = None
    /\ ssl_result = Unset
    /\ stderr = <<>>
    /\ applied_opts = None
    /\ pool_attempts = 0
    /\ conn_result = Unset
    /\ feature_verbose \in BOOLEAN
    /\ cert = NoCert
    /\ verify_result = Unset

\* entry "cli": the orchestrator, with a parsed Cli;
\* entry "lib": a caller of TlsConfig::from_cli_args with any selectors;
\* entry "api": a caller of the TlsConfig constructors and of the verifier.
Init ==
    /\ entry \in {"cli", "lib", "api"}
    /\ InitRun
    /\ IF entry = "api"
       THEN ca_file = None /\ skip_hostname = FALSE /\ accept_invalid = FALSE
       ELSE /\ ca_file \in {None} \cup {Some(p) : p \in Paths}
            /\ skip_hostname \in BOOLEAN
            /\ accept_invalid \in BOOLEAN
    /\ IF entry = "cli"
       THEN verbose \in 0..MaxVerbose /\ quiet \in BOOLEAN
       ELSE verbose = 0 /\ quiet = FALSE
    /\ ErrIdle
    /\ OutIdle

\* create_database_connection building a TlsConfig whatever the selectors are
CliBuildTlsConfigAlways ==
    /\ entry = "cli"
    /\ pc = "start"
    /\ LET r == from_cli_args(ca_file, skip_hostname, accept_invalid, fs) IN
       /\ cfg_result' = r
       /\ IF r.ok
          THEN /\ stderr' = stderr \o display_security_warnings(r.val)
               /\ tls_config' = Some(r.val)
               /\ pc' = "config"
               /\ conn_result' = conn_result
          ELSE /\ conn_result' = Err(r.err)
               /\ pc' = "done"
               /\ UNCHANGED <<stderr, tls_config>>
    /\ UNCHANGED <<entry, ca_file, skip_hostname, accept_invalid, verbose, quiet,
                   url_ok, fs, fs_changes, ssl_result, applied_opts, pool_attempts,
                   feature_verbose, cert, verify_result>>
    /\ UNCHANGED <<errVars, outVars>>

\* main.rs create_database_connection, up to the call of create_tls_connection:
\* build the TlsConfig when a selector is set, and display its warnings.
CliBuildTlsConfig ==
    /\ entry = "cli"
    /\ pc = "start"
    /\ IF ca_file.some \/ skip_hostname \/ accept_invalid
       THEN LET r == from_cli_args(ca_file, skip_hostname, accept_invalid, fs) IN
            /\ cfg_result' = r
            /\ IF r.ok
               THEN /\ stderr' = stderr \o display_security_warnings(r.val)
                    /\ tls_config' = Some(r.val)
                    /\ pc' = "config"
                    /\ conn_result' = conn_result
               ELSE /\ conn_result' = Err(r.err)
                    /\ pc' = "done"
                    /\ UNCHANGED <<stderr, tls_config>>
       ELSE /\ tls_config' = None
            /\ pc' = "config"
            /\ UNCHANGED <<cfg_result, stderr, conn_result>>
    /\ UNCHANGED <<entry, ca_file, skip_hostname, accept_invalid, verbose, quiet,
                   url_ok, fs, fs_changes, ssl_result, applied_opts, pool_attempts,
                   feature_verbose, cert, verify_result>>
    /\ UNCHANGED <<errVars, outVars>>

\* A direct call of TlsConfig::from_cli_args
LibFromCliArgs ==
    /\ entry = "lib"
    /\ pc = "start"
    /\ LET r == from_cli_args(ca_file, skip_hostname, accept_invalid, fs) IN
       /\ cfg_result' = r
       /\ tls_config' = IF r.ok THEN Some(r.val) ELSE None
       /\ pc' = IF r.ok THEN "config" ELSE "done"
    /\ UNCHANGED <<entry, ca_file, skip_hostname, accept_invalid, verbose, quiet,
                   url_ok, fs, fs_changes, ssl_result, stderr, applied_opts,
                   pool_attempts, conn_result, feature_verbose, cert, verify_result>>
    /\ UNCHANGED <<errVars, outVars>>

\* TlsConfig::default, new, with_custom_ca, with_skip_hostname_verification,
\* with_accept_invalid
Constructed ==
    {TlsConfig(FALSE, Platform), TlsConfig(TRUE, Platform),
     TlsConfig(TRUE, SkipHostnameVerification), TlsConfig(TRUE, AcceptInvalid)}
    \cup {TlsConfig(TRUE, CustomCa(p)) : p \in Paths}

LibConstruct ==
    /\ entry = "api"
    /\ pc = "start"
    /\ \E c \in Constructed : tls_config' = Some(c)
    /\ pc' = "config"
    /\ UNCHANGED <<entry, ca_file, skip_hostname, accept_invalid, verbose, quiet,
                   url_ok, fs, fs_changes, cfg_result, ssl_result, stderr,
                   applied_opts, pool_attempts, conn_result, feature_verbose, cert,
                   verify_result>>
    /\ UNCHANGED <<errVars, outVars>>

\* The environment replaces what the configured CA path holds between the
\* construction of the configuration and its use (no other file is read later).
FsChange ==
    /\ pc = "config"
    /\ fs_changes < MaxFsChanges
    /\ tls_config.some
    /\ tls_config.val.validation_mode.tag = "CustomCa"
    /\ \E k \in FileKinds :
          LET p == tls_config.val.validation_mode.ca_file_path IN
          /\ p # EmptyPath
          /\ fs[p] # k
          /\ fs' = [fs EXCEPT ![p] = k]
    /\ fs_changes' = fs_changes + 1
    /\ UNCHANGED <<entry, pc, ca_file, skip_hostname, accept_invalid, verbose, quiet,
                   url_ok, cfg_result, tls_config, ssl_result, stderr, applied_opts,
                   pool_attempts, conn_result, feature_verbose, cert, verify_result>>
    /\ UNCHANGED <<errVars, outVars>>

\* A direct call of TlsConfig::to_ssl_opts
LibToSslOpts ==
    /\ entry \in {"lib", "api"}
    /\ pc = "config"
    /\ tls_config.some
    /\ ssl_result' = to_ssl_opts(tls_config.val, fs)
    /\ pc' = "opts"
    /\ UNCHANGED <<entry, ca_file, skip_hostname, accept_invalid, verbose, quiet,
                   url_ok, fs, fs_changes, cfg_result, tls_config, stderr,
                   applied_opts, pool_attempts, conn_result, feature_verbose, cert,
                   verify_result>>
    /\ UNCHANGED <<errVars, outVars>>

\* create_tls_connection opening the pool before it looks at the URL and at
\* the TLS options
CreateTlsConnectionPoolFirst ==
    /\ pc \in {"config", "opts"}
    /\ pc' = "done"
    /\ pool_attempts' = pool_attempts + 1
    /\ conn_result' =
          IF url_ok THEN Ok("Pool")
          ELSE Err(connection_failed(<<"Invalid database URL format: ", "url error">>))
    /\ UNCHANGED <<ssl_result, stderr, applied_opts>>
    /\ UNCHANGED <<entry, ca_file, skip_hostname, accept_invalid, verbose, quiet,
                   url_ok, fs, fs_changes, cfg_result, tls_config, feature_verbose,
                   cert, verify_result>>
    /\ UNCHANGED <<errVars, outVars>>

\* create_tls_connection (ssl feature)
CreateTlsConnection ==
    /\ pc \in {"config", "opts"}
    /\ pc' = "done"
    /\ IF ~url_ok
       THEN /\ conn_result' =
                  Err(connection_failed(<<"Invalid database URL format: ", "url error">>))
            /\ UNCHANGED <<ssl_result, stderr, applied_opts, pool_attempts>>
       ELSE LET call == tls_config.some /\ tls_config.val.enabled
                r == IF call THEN to_ssl_opts(tls_config.val, fs) ELSE Ok(None)
            IN  /\ ssl_result' = IF call THEN r ELSE ssl_result
                /\ IF ~r.ok
                   THEN /\ conn_result' = Err(r.err)
                        /\ UNCHANGED <<stderr, applied_opts, pool_attempts>>
                   ELSE /\ applied_opts' = r.val
                        /\ stderr' =
                              IF feature_verbose
                              THEN IF call /\ r.val.some
                                   THEN stderr \o verbose_log(tls_config.val)
                                   ELSE IF ~tls_config.some
                                   THEN stderr \o
                                        <<"TLS: Using default configuration (platform certificates)">>
                                   ELSE stderr
                              ELSE stderr
                        /\ pool_attempts' = pool_attempts + 1
                        /\ \/ conn_result' = Ok("Pool")
                           \/ \E e \in MysqlErrors :
                                 conn_result' =
                                    Err(IF map_pool_error(e) = "HostnameVerificationFailed"
                                        THEN hostname_verification_failed(
                                                "server", <<"mysql error">>)
                                        ELSE with_message(map_pool_error(e),
                                                <<"mysql error">>))
    /\ UNCHANGED <<entry, ca_file, skip_hostname, accept_invalid, verbose, quiet,
                   url_ok, fs, fs_changes, cfg_result, tls_config, feature_verbose,
                   cert, verify_result>>
    /\ UNCHANGED <<errVars, outVars>>

\* A direct call of SkipHostnameVerifier::verify_server_cert
LibVerifyServerCert ==
    /\ entry = "api"
    /\ pc = "start"
    /\ \E c \in Certs :
          /\ cert' = c
          /\ verify_result' = verify_server_cert(c)
    /\ pc' = "verified"
    /\ UNCHANGED <<entry, ca_file, skip_hostname, accept_invalid, verbose, quiet,
                   url_ok, fs, fs_changes, cfg_result, tls_config, ssl_result,
                   stderr, applied_opts, pool_attempts, conn_result, feature_verbose>>
    /\ UNCHANGED <<errVars, outVars>>

Next ==
    \/ CliBuildTlsConfig
    \/ LibFromCliArgs
    \/ LibConstruct
    \/ FsChange
    \/ LibToSslOpts
    \/ CreateTlsConnection
    \/ LibVerifyServerCert

Spec == Init /\ [][Next]_vars

\* ------------------------------------------------------ the error classifier
\* rustls::Error values: the variant and, where it has one, the inner value
\* (named as derive(Debug) prints it).
NoRustlsError == [variant |-> "-", inner |-> "-"]
RustlsUnit(variant) == [variant |-> variant, inner |-> "-"]
OwnArmCertificateErrors ==
    {"BadSignature", "Expired", "NotValidYet", "InvalidPurpose", "UnknownIssuer",
     "BadEncoding", "Revoked"}
OtherCertificateErrors ==
    {"NotValidForName", "UnhandledCriticalExtension", "UnknownRevocationStatus",
     "ApplicationVerificationFailure"}
OwnArmUnitErrors ==
    {"NoCertificatesPresented", "DecryptError", "FailedToGetCurrentTime",
     "HandshakeNotComplete", "PeerSentOversizedRecord"}
WildcardUnitErrors ==
    {"EncryptError", "UnsupportedNameType", "NoApplicationProtocol",
     "BadMaxFragmentSize", "FailedToGetRandomBytes"}
RustlsErrors ==
    {[variant |-> "InvalidCertificate", inner |-> c] :
        c \in OwnArmCertificateErrors \cup OtherCertificateErrors}
    \cup {[variant |-> "InvalidMessage", inner |-> m] :
        m \in {"InvalidCertRequest", "MessageTooLarge"}}
    \cup {[variant |-> "PeerIncompatible", inner |-> i] :
        i \in {"Tls12NotOffered", "NoCipherSuitesInCommon",
               "SupportedVersionsExtensionRequired", "NoKxGroupsInCommon"}}
    \cup {[variant |-> "PeerMisbehaved", inner |-> b] :
        b \in {"IllegalMiddleboxChangeCipherSpec", "TooManyEmptyFragments"}}
    \cup {[variant |-> "AlertReceived", inner |-> a] :
        a \in {"HandshakeFailure", "ProtocolVersion"}}
    \cup {[variant |-> "General", inner |-> g] :
        g \in {"TLS version not supported", "peer misbehaved"}}
    \cup {RustlsUnit(u) : u \in OwnArmUnitErrors \cup WildcardUnitErrors}

Hostnames == {None, Some("example.com"), Some("db.internal")}

\* format!("{:?}", x) of a field-less enum value: its name
Debug(inner) == inner

\* format!("{}", error) of the rustls errors that reach the wildcard arm
Display(e) ==
    CASE e.variant = "General" -> "unexpected error: " \o e.inner
      [] e.variant = "EncryptError" -> "cannot encrypt message"
      [] e.variant = "UnsupportedNameType" ->
            "presented server name type wasn't supported"
      [] e.variant = "NoApplicationProtocol" ->
            "peer doesn't support any known protocol"
      [] e.variant = "BadMaxFragmentSize" ->
            "the supplied max_fragment_size was too small or large"
      [] e.variant = "FailedToGetRandomBytes" -> "failed to get random bytes"
      [] OTHER -> e.variant

\* format!("{:?}", incompatible_error).to_lowercase().contains(needle)
debug_lower_contains(inner, needle) ==
    CASE needle = "tls" -> inner \in {"Tls12NotOffered"}
      [] needle = "version" -> inner \in {"SupportedVersionsExtensionRequired"}
      [] OTHER -> FALSE

unwrap_or(opt, default) == IF opt.some THEN opt.val ELSE default

\* from_rustls_error with every error outside the certificate, alert and
\* misbehaviour arms sent to the wildcard arm
from_rustls_error_wildcard_only(e, host) ==
    CASE e.variant = "InvalidCertificate" ->
            with_message("CertificateValidationFailed",
                <<"Certificate validation failed: ", Debug(e.inner),
                  ". Use --allow-invalid-certificate to bypass">>)
      [] e.variant = "PeerMisbehaved" ->
            with_message("PeerMisbehaved",
                <<"Server violated TLS protocol: ", Debug(e.inner)>>)
      [] e.variant = "AlertReceived" -> server_alert(Debug(e.inner))
      [] OTHER ->
            with_message("HandshakeFailed", <<"TLS handshake failed: ", Display(e)>>)

\* TlsError::from_rustls_error
from_rustls_error(e, host) ==
    CASE e.variant = "InvalidCertificate" ->
            (CASE e.inner = "BadSignature" ->
                    with_message("InvalidSignature",
                        <<"Certificate signature verification failed">>)
               [] e.inner = "Expired" ->
                    with_message("CertificateTimeInvalid", <<"Certificate has expired">>)
               [] e.inner = "NotValidYet" ->
                    with_message("CertificateTimeInvalid",
                        <<"Certificate is not yet valid (future date)">>)
               [] e.inner = "InvalidPurpose" ->
                    with_message("InvalidCertificatePurpose",
                        <<"Certificate not valid for server authentication">>)
               [] e.inner = "UnknownIssuer" ->
                    with_message("UnknownCertificateAuthority",
                        <<"Certificate issued by unknown or untrusted CA">>)
               [] e.inner = "BadEncoding" ->
                    with_message("CertificateChainInvalid",
                        <<"Certificate has invalid encoding or format">>)
               [] e.inner = "Revoked" ->
                    with_message("CertificateRevoked",
                        <<"Certificate has been revoked by the issuing CA">>)
               [] OTHER ->
                    with_message("CertificateValidationFailed",
                        <<"Certificate validation failed: ", Debug(e.inner),
                          ". Use --allow-invalid-certificate to bypass">>))
      [] e.variant = "InvalidMessage" ->
            hostname_verification_failed(unwrap_or(host, "unknown"),
                <<"Hostname does not match certificate Subject Alternative Name (SAN) or Common Name (CN)">>)
      [] e.variant = "PeerIncompatible" ->
            IF debug_lower_contains(e.inner, "tls")
               \/ debug_lower_contains(e.inner, "version")
            THEN with_message("ProtocolVersionMismatch",
                    <<"TLS version incompatibility: ", Debug(e.inner)>>)
            ELSE with_message("CipherSuiteNegotiationFailed",
                    <<"Cipher suite negotiation failed: ", Debug(e.inner)>>)
      [] e.variant = "PeerMisbehaved" ->
            with_message("PeerMisbehaved",
                <<"Server violated TLS protocol: ", Debug(e.inner)>>)
      [] e.variant = "AlertReceived" -> server_alert(Debug(e.inner))
      [] e.variant = "NoCertificatesPresented" ->
            with_message("CertificateValidationFailed",
                <<"Server did not present any certificates. Use --allow-invalid-certificate to bypass">>)
      [] e.variant = "DecryptError" ->
            with_message("HandshakeFailed",
                <<"TLS decryption error. Possible cipher suite or key exchange issue">>)
      [] e.variant = "FailedToGetCurrentTime" ->
            with_message("CertificateTimeInvalid",
                <<"Cannot verify certificate validity: system time unavailable">>)
      [] e.variant = "HandshakeNotComplete" ->
            with_message("HandshakeFailed",
                <<"TLS handshake incomplete. Connection interrupted">>)
      [] e.variant = "PeerSentOversizedRecord" ->
            with_message("PeerMisbehaved",
                <<"Server sent oversized TLS record (protocol violation)">>)
      [] OTHER ->
            with_message("HandshakeFailed", <<"TLS handshake failed: ", Display(e)>>)

\* The constructor methods of TlsError, by kind
construct(kind, a, b) ==
    CASE kind = "CaFileNotFound" -> ca_file_not_found(a)
      [] kind = "InvalidCaFormat" -> invalid_ca_format(a, <<b>>)
      [] kind = "HostnameVerificationFailed" -> hostname_verification_failed(a, <<b>>)
      [] kind = "MutuallyExclusiveFlags" -> mutually_exclusive_flags(<<a>>)
      [] kind = "UnsupportedTlsVersion" -> unsupported_tls_version(a)
      [] kind = "ServerAlert" -> server_alert(a)
      [] kind \in {"FeatureNotEnabled", "InsecureCredentials"} -> TlsErrorRec(kind)
      [] OTHER -> with_message(kind, <<a>>)

\* suggest_cli_flag offering the accept-invalid flag after a server alert
suggest_cli_flag_for_alert(err) ==
    CASE err.kind = "HostnameVerificationFailed" ->
            Some(<<"--insecure-skip-hostname-verify">>)
      [] err.kind = "UnknownCertificateAuthority" ->
            Some(<<"--tls-ca-file <path>", " or ", "--allow-invalid-certificate">>)
      [] err.kind \in {"CertificateTimeInvalid", "InvalidSignature",
                       "InvalidCertificatePurpose", "CertificateChainInvalid",
                       "CertificateRevoked", "CertificateValidationFailed",
                       "ServerAlert"} ->
            Some(<<"--allow-invalid-certificate">>)
      [] OTHER -> None

\* TlsError::suggest_cli_flag; the static string as its pieces
suggest_cli_flag(err) ==
    CASE err.kind = "HostnameVerificationFailed" ->
            Some(<<"--insecure-skip-hostname-verify">>)
      [] err.kind = "CertificateTimeInvalid" -> Some(<<"--allow-invalid-certificate">>)
      [] err.kind = "InvalidSignature" -> Some(<<"--allow-invalid-certificate">>)
      [] err.kind = "UnknownCertificateAuthority" ->
            Some(<<"--tls-ca-file <path>", " or ", "--allow-invalid-certificate">>)
      [] err.kind = "InvalidCertificatePurpose" -> Some(<<"--allow-invalid-certificate">>)
      [] err.kind = "CertificateChainInvalid" -> Some(<<"--allow-invalid-certificate">>)
      [] err.kind = "CertificateRevoked" -> Some(<<"--allow-invalid-certificate">>)
      [] err.kind = "CertificateValidationFailed" ->
            Some(<<"--allow-invalid-certificate">>)
      [] err.kind \in {"ProtocolVersionMismatch", "CipherSuiteNegotiationFailed",
                       "ServerAlert", "PeerMisbehaved", "HandshakeFailed",
                       "ConnectionFailed", "CaFileNotFound", "InvalidCaFormat",
                       "MutuallyExclusiveFlags", "UnsupportedTlsVersion",
                       "FeatureNotEnabled", "InsecureCredentials"} -> None

\* TlsError::is_certificate_error
is_certificate_error(err) ==
    err.kind \in {"CertificateValidationFailed", "CertificateTimeInvalid",
                  "InvalidSignature", "UnknownCertificateAuthority",
                  "InvalidCertificatePurpose", "CertificateChainInvalid",
                  "CertificateRevoked"}

\* TlsError::is_hostname_error
is_hostname_error(err) == err.kind \in {"HostnameVerificationFailed"}

\* TlsError::is_server_configuration_error
is_server_configuration_error(err) ==
    err.kind \in {"ProtocolVersionMismatch", "CipherSuiteNegotiationFailed",
                  "ServerAlert", "PeerMisbehaved", "UnsupportedTlsVersion"}

\* is_client_configuration_error counting an unsupported TLS version as well
is_client_configuration_error_with_version(err) ==
    err.kind \in {"CaFileNotFound", "InvalidCaFormat", "MutuallyExclusiveFlags",
                  "FeatureNotEnabled", "UnsupportedTlsVersion"}

\* TlsError::is_client_configuration_error
is_client_configuration_error(err) ==
    err.kind \in {"CaFileNotFound", "InvalidCaFormat", "MutuallyExclusiveFlags",
                  "FeatureNotEnabled"}

ArgTexts == {"a.example", "b.example"}

\* No connection set-up runs beside the classifier.
TlsIdle ==
    /\ entry = "none"
    /\ pc = "idle"
    /\ ca_file = None
    /\ skip_hostname = FALSE
    /\ accept_invalid = FALSE
    /\ verbose = 0
    /\ quiet = FALSE
    /\ url_ok = TRUE
    /\ fs = [p \in Paths |-> "missing"]
    /\ fs_changes = 0
    /\ cfg_result = Unset
    /\ tls_config = None
    /\ ssl_result = Unset
    /\ stderr = <<>>
    /\ applied_opts = None
    /\ pool_attempts = 0
    /\ conn_result = Unset
    /\ feature_verbose = FALSE
    /\ cert = NoCert
    /\ verify_result = Unset

\* The input is a rustls error with an optional hostname, or nothing (the error
\* is then made by a constructor).
ErrInit ==
    /\ TlsIdle
    /\ OutIdle
    /\ epc = "start"
    /\ \/ rustls_error \in RustlsErrors /\ hostname \in Hostnames
       \/ rustls_error = NoRustlsError /\ hostname = None
    /\ error = Unset
    /\ suggested = Unset
    /\ queries = {}

FromRustlsError ==
    /\ epc = "start"
    /\ rustls_error # NoRustlsError
    /\ error' = from_rustls_error(rustls_error, hostname)
    /\ epc' = "made"
    /\ UNCHANGED <<rustls_error, hostname, suggested, queries>>
    /\ UNCHANGED <<tlsVars, outVars>>

Construct ==
    /\ epc = "start"
    /\ rustls_error = NoRustlsError
    /\ \E kind \in TlsErrorKinds, a \in ArgTexts, b \in ArgTexts :
          error' = construct(kind, a, b)
    /\ epc' = "made"
    /\ UNCHANGED <<rustls_error, hostname, suggested, queries>>
    /\ UNCHANGED <<tlsVars, outVars>>

SuggestCliFlag ==
    /\ epc = "made"
    /\ suggested = Unset
    /\ suggested' = suggest_cli_flag(error)
    /\ UNCHANGED <<epc, rustls_error, hostname, error, queries>>
    /\ UNCHANGED <<tlsVars, outVars>>

Asked(q) == \E x \in queries : x.q = q
Answer(q, r) ==
    /\ epc = "made"
    /\ ~Asked(q)
    /\ queries' = queries \cup {[q |-> q, r |-> r]}
    /\ UNCHANGED <<epc, rustls_error, hostname, error, suggested>>
    /\ UNCHANGED <<tlsVars, outVars>>

IsCertificateError == Answer("is_certificate_error", is_certificate_error(error))
IsHostnameError == Answer("is_hostname_error", is_hostname_error(error))
IsServerConfigurationError ==
    Answer("is_server_configuration_error", is_server_configuration_error(error))
IsClientConfigurationError ==
    Answer("is_client_configuration_error", is_client_configuration_error(error))

ErrNext ==
    \/ FromRustlsError
    \/ Construct
    \/ SuggestCliFlag
    \/ IsCertificateError
    \/ IsHostnameError
    \/ IsServerConfigurationError
    \/ IsClientConfigurationError

ErrSpec == ErrInit /\ [][ErrNext]_vars

\* ------------------------------------------------------------ the claims
\* the number of selectors set
SetCount == B2N(ca_file.some) + B2N(skip_hostname) + B2N(accept_invalid)
\* from_cli_args has returned
Called == cfg_result # Unset
Contains(seq, x) == \E i \in 1..Len(seq) : seq[i] = x
\* `lines` stand in `out`, in order and next to each other
Written(lines, out) ==
    \E i \in 0..(Len(out) - Len(lines)) : SubSeq(out, i + 1, i + Len(lines)) = lines
\* a line of any security warning stands in `out`
AnyWarning(out) ==
    \E i \in 1..Len(out) :
        Contains(WarnSkipHostname, out[i]) \/ Contains(WarnAcceptInvalid, out[i])
\* the mode of the configuration handed on, "none" without a configuration
ModeTag == IF tls_config.some THEN tls_config.val.validation_mode.tag ELSE "none"

\* C1: whenever two or three of the selectors are set, from_cli_args fails with
\* MutuallyExclusiveFlags and the flag list names every selector that was set.
C1_MutuallyExclusiveNamesAll ==
    (Called /\ SetCount >= 2) =>
        /\ ~cfg_result.ok
        /\ cfg_result.err.kind = "MutuallyExclusiveFlags"
        /\ ca_file.some => Contains(cfg_result.err.flags, "--tls-ca-file")
        /\ skip_hostname =>
              Contains(cfg_result.err.flags, "--insecure-skip-hostname-verify")
        /\ accept_invalid =>
              Contains(cfg_result.err.flags, "--allow-invalid-certificate")

\* all three selectors set, and the error lists the three names
C1_Witness ==
    /\ Called
    /\ SetCount = 3
    /\ ~cfg_result.ok
    /\ cfg_result.err.flags =
          <<"--tls-ca-file", ", ", "--insecure-skip-hostname-verify", ", ",
            "--allow-invalid-certificate">>

\* C2: from_cli_args derives exactly one mode: no selector gives Platform, only
\* ca_file (existing path) gives CustomCa with that path, only skip_hostname gives
\* SkipHostnameVerification, only accept_invalid gives AcceptInvalid, and every
\* successful result is enabled. (The file system is the one the call saw.)
C2_ModeDerivation ==
    (Called /\ fs_changes = 0) =>
        /\ SetCount = 0 => cfg_result = Ok(TlsConfig(TRUE, Platform))
        /\ (SetCount = 1 /\ ca_file.some /\ PathExists(fs[ca_file.val])) =>
              cfg_result = Ok(TlsConfig(TRUE, CustomCa(ca_file.val)))
        /\ (SetCount = 1 /\ skip_hostname) =>
              cfg_result = Ok(TlsConfig(TRUE, SkipHostnameVerification))
        /\ (SetCount = 1 /\ accept_invalid) =>
              cfg_result = Ok(TlsConfig(TRUE, AcceptInvalid))
        /\ cfg_result.ok => cfg_result.val.enabled

\* the orchestrator got CustomCa for the one path it gave
C2_Witness ==
    /\ entry = "cli"
    /\ ca_file = Some("/srv/certs")
    /\ Called
    /\ cfg_result = Ok(TlsConfig(TRUE, CustomCa("/srv/certs")))

\* C3: with ca_file the only selector, from_cli_args returns a configuration
\* only if the path is readable as a file; for a missing or empty path, or one
\* that is no readable regular file, it fails with CaFileNotFound.
C3_CaFileReadableOrNotFound ==
    (Called /\ fs_changes = 0 /\ SetCount = 1 /\ ca_file.some) =>
        /\ cfg_result.ok => IsReadableFile(fs[ca_file.val])
        /\ ~IsReadableFile(fs[ca_file.val]) =>
              /\ ~cfg_result.ok
              /\ cfg_result.err.kind = "CaFileNotFound"

C6_SslOptsMapping ==
    (ssl_result # Unset /\ tls_config.some) =>
        LET config == tls_config.val
            mode == config.validation_mode
        IN
        /\ ~config.enabled => ssl_result = Ok(None)
        /\ (config.enabled /\ mode.tag = "Platform") =>
              ssl_result = Ok(Some(
                 [skip_domain_validation |-> FALSE, accept_invalid_certs |-> FALSE,
                  root_cert_path |-> None]))
        /\ (config.enabled /\ mode.tag = "CustomCa"
              /\ CertCount(fs[mode.ca_file_path]) >= 1) =>
              ssl_result = Ok(Some(
                 [skip_domain_validation |-> FALSE, accept_invalid_certs |-> FALSE,
                  root_cert_path |-> Some(mode.ca_file_path)]))
        /\ (config.enabled /\ mode.tag = "SkipHostnameVerification") =>
              ssl_result = Ok(Some(
                 [skip_domain_validation |-> TRUE, accept_invalid_certs |-> FALSE,
                  root_cert_path |-> None]))
        /\ (config.enabled /\ mode.tag = "AcceptInvalid") =>
              ssl_result = Ok(Some(
                 [skip_domain_validation |-> TRUE, accept_invalid_certs |-> TRUE,
                  root_cert_path |-> None]))
        /\ (ssl_result.ok /\ ssl_result.val.some) =>
              /\ ssl_result.val.val.skip_domain_validation =>
                    mode.tag \in {"SkipHostnameVerification", "AcceptInvalid"}
              /\ ssl_result.val.val.accept_invalid_certs => mode.tag = "AcceptInvalid"

\* a CustomCa configuration over a certificate bundle got its options
C6_Witness ==
    /\ ssl_result # Unset
    /\ ssl_result.ok
    /\ ssl_result.val.some
    /\ ModeTag = "CustomCa"
    /\ ssl_result.val.val.root_cert_path = Some("/etc/ssl/ca.pem")
    /\ fs["/etc/ssl/ca.pem"] = "bundle"

\* C7: SkipHostnameVerifier::verify_server_cert accepts only certificates whose
\* chain validates against the root store and whose validity time holds, and the
\* SslOpts of SkipHostnameVerification never set accept_invalid_certs.
C7_SkipHostnameKeepsChainValidation ==
    /\ (verify_result # Unset /\ verify_result.ok) =>
          (cert.chain_valid /\ cert.time_valid)
    /\ (ssl_result # Unset /\ ssl_result.ok /\ ssl_result.val.some
          /\ ModeTag = "SkipHostnameVerification") =>
          ~ssl_result.val.val.accept_invalid_certs


\* ------------------------------------------------- claims on the classifier
FromRustls == epc = "made" /\ rustls_error # NoRustlsError
InMessage(piece) == Contains(error.message, piece)
QueryTrue(q) == [q |-> q, r |-> TRUE] \in queries
QueryFalse(q) == [q |-> q, r |-> FALSE] \in queries
AllAsked == Cardinality(queries) = 4

\* C8: suggest_cli_flag answers a hostname failure with exactly the
\* skip-hostname flag, every certificate error with text that includes the
\* accept-invalid flag, and has no suggestion for protocol, cipher, alert,
\* handshake, connection and configuration errors; a suggestion exists exactly
\* when the error is a certificate error or a hostname error.
C8_SuggestionMatchesClass ==
    suggested # Unset =>
        /\ error.kind = "HostnameVerificationFailed" =>
              suggested = Some(<<"--insecure-skip-hostname-verify">>)
        /\ error.kind \in {"CertificateValidationFailed", "CertificateTimeInvalid",
                           "InvalidSignature", "UnknownCertificateAuthority",
                           "InvalidCertificatePurpose", "CertificateChainInvalid",
                           "CertificateRevoked"} =>
              /\ suggested.some
              /\ Contains(suggested.val, "--allow-invalid-certificate")
        /\ error.kind \in {"ProtocolVersionMismatch", "CipherSuiteNegotiationFailed",
                           "ServerAlert", "PeerMisbehaved", "UnsupportedTlsVersion",
                           "HandshakeFailed", "ConnectionFailed", "CaFileNotFound",
                           "InvalidCaFormat", "MutuallyExclusiveFlags",
                           "FeatureNotEnabled"} =>
              suggested = None
        /\ suggested.some <=> (is_certificate_error(error) \/ is_hostname_error(error))

C8_Witness ==
    /\ suggested = Some(<<"--tls-ca-file <path>", " or ", "--allow-invalid-certificate">>)
    /\ QueryTrue("is_certificate_error")
    /\ QueryFalse("is_hostname_error")

\* C9: of the four membership queries (certificate, hostname, server
\* configuration, client configuration) at most one answers true for any
\* error value; a time-validity error is a certificate error only, a hostname
\* failure a hostname error only, a protocol mismatch a server configuration
\* error only and a missing CA file a client configuration error only.
C9_AtMostOneClass ==
    /\ Cardinality({x \in queries : x.r}) <= 1
    /\ \A x \in queries :
          /\ error.kind = "CertificateTimeInvalid" =>
                (x.r <=> x.q = "is_certificate_error")
          /\ error.kind = "HostnameVerificationFailed" =>
                (x.r <=> x.q = "is_hostname_error")
          /\ error.kind = "ProtocolVersionMismatch" =>
                (x.r <=> x.q = "is_server_configuration_error")
          /\ error.kind = "CaFileNotFound" =>
                (x.r <=> x.q = "is_client_configuration_error")

C9_Witness ==
    /\ AllAsked
    /\ error.kind = "UnsupportedTlsVersion"
    /\ QueryTrue("is_server_configuration_error")
    /\ QueryFalse("is_client_configuration_error")

\* The arms that C10 names, common to its statement and its amendment.
C10_NamedArms ==
    LET e == rustls_error IN
    /\ error.kind \in TlsErrorKinds
    /\ (e.variant = "InvalidCertificate" /\ e.inner = "BadSignature") =>
          error.kind = "InvalidSignature"
    /\ (e.variant = "InvalidCertificate" /\ e.inner \in {"Expired", "NotValidYet"}) =>
          error.kind = "CertificateTimeInvalid"
    /\ (e.variant = "InvalidCertificate" /\ e.inner = "InvalidPurpose") =>
          error.kind = "InvalidCertificatePurpose"
    /\ (e.variant = "InvalidCertificate" /\ e.inner = "UnknownIssuer") =>
          error.kind = "UnknownCertificateAuthority"
    /\ (e.variant = "InvalidCertificate" /\ e.inner = "BadEncoding") =>
          error.kind = "CertificateChainInvalid"
    /\ (e.variant = "InvalidCertificate" /\ e.inner = "Revoked") =>
          error.kind = "CertificateRevoked"
    /\ e.variant = "AlertReceived" =>
          (error.kind = "ServerAlert" /\ error.alert = Debug(e.inner))
    /\ e.variant = "PeerMisbehaved" => error.kind = "PeerMisbehaved"
    /\ (e.variant = "InvalidCertificate" /\ e.inner \in OtherCertificateErrors) =>
          (error.kind = "CertificateValidationFailed" /\ InMessage(Debug(e.inner)))

\* C10 as stated: from_rustls_error is total; a bad signature, an expired or
\* not-yet-valid certificate, an invalid purpose, an unknown issuer, a bad
\* encoding, a revoked certificate, a received alert and peer misbehaviour map
\* to their kinds; every other certificate error maps to
\* CertificateValidationFailed and every other underlying error to
\* HandshakeFailed, each with the original error rendered inside the message.
C10_EveryOtherErrorIsHandshakeFailed ==
    FromRustls =>
        /\ C10_NamedArms
        /\ rustls_error.variant \notin
                {"InvalidCertificate", "AlertReceived", "PeerMisbehaved"} =>
              (error.kind = "HandshakeFailed" /\ InMessage(Display(rustls_error)))

\* C10 amended: as stated for the named arms and for every other certificate
\* error; of the other underlying errors an invalid message maps to
\* HostnameVerificationFailed, an incompatible peer to ProtocolVersionMismatch
\* or CipherSuiteNegotiationFailed, no certificates presented to
\* CertificateValidationFailed, an unavailable clock to CertificateTimeInvalid,
\* an oversized record to PeerMisbehaved, a decrypt error and an incomplete
\* handshake to HandshakeFailed with a fixed message; only the remaining
\* errors map to HandshakeFailed with the original error rendered inside.
C10_FromRustlsMapping ==
    FromRustls =>
        LET e == rustls_error IN
        /\ C10_NamedArms
        /\ e.variant = "InvalidMessage" => error.kind = "HostnameVerificationFailed"
        /\ e.variant = "PeerIncompatible" =>
              /\ error.kind \in {"ProtocolVersionMismatch", "CipherSuiteNegotiationFailed"}
              /\ InMessage(Debug(e.inner))
        /\ e.variant = "NoCertificatesPresented" =>
              error.kind = "CertificateValidationFailed"
        /\ e.variant = "FailedToGetCurrentTime" => error.kind = "CertificateTimeInvalid"
        /\ e.variant = "PeerSentOversizedRecord" => error.kind = "PeerMisbehaved"
        /\ e.variant \in {"DecryptError", "HandshakeNotComplete"} =>
              (error.kind = "HandshakeFailed" /\ ~InMessage(Display(e)))
        /\ e.variant \in {"General"} \cup WildcardUnitErrors =>
              (error.kind = "HandshakeFailed" /\ InMessage(Display(e)))

C10_Witness ==
    /\ FromRustls
    /\ rustls_error.variant = "FailedToGetCurrentTime"
    /\ error.kind = "CertificateTimeInvalid"


\* A hostname mismatch as rustls reports it: the certificate is not valid for
\* the name it is validated for.
HostnameMismatch ==
    rustls_error = [variant |-> "InvalidCertificate", inner |-> "NotValidForName"]

\* C11: from_rustls_error maps a hostname-mismatch failure to
\* HostnameVerificationFailed, and the hostname field of every
\* HostnameVerificationFailed it produces equals the attempted hostname passed
\* in, or the literal "unknown" when no hostname was passed.
C11_HostnameMismatchCarriesHostname ==
    FromRustls =>
        /\ HostnameMismatch => error.kind = "HostnameVerificationFailed"
        /\ error.kind = "HostnameVerificationFailed" =>
              error.hostname = (IF hostname.some THEN hostname.val ELSE "unknown")

\* The hostname half of C11 alone: every HostnameVerificationFailed produced
\* carries the hostname passed in, or "unknown".
C11_HostnameFieldOnly ==
    (FromRustls /\ error.kind = "HostnameVerificationFailed") =>
        error.hostname = (IF hostname.some THEN hostname.val ELSE "unknown")

\* ------------------------------------------------------ value coercion
\* Strings are sequences of characters; a character is a one-character string
\* (a non-ASCII code point cp is named "U+" followed by cp).

\* Unsigned integers wider than the checker's are sequences of 16-bit limbs,
\* most significant first: a u32 has two, a u64 and an i64 (two's complement)
\* four.
Digit(d) ==
    CASE d = 0 -> "0" [] d = 1 -> "1" [] d = 2 -> "2" [] d = 3 -> "3" [] d = 4 -> "4"
      [] d = 5 -> "5" [] d = 6 -> "6" [] d = 7 -> "7" [] d = 8 -> "8" [] d = 9 -> "9"

IsZero(limbs) == \A i \in DOMAIN limbs : limbs[i] = 0

\* limbs divided by ten, started with the remainder rem of the limbs before
RECURSIVE DivLimbs(_, _)
DivLimbs(limbs, rem) ==
    IF limbs = <<>>
    THEN [q |-> <<>>, r |-> rem]
    ELSE LET cur == rem * 65536 + Head(limbs)
             rest == DivLimbs(Tail(limbs), cur % 10)
         IN [q |-> <<cur \div 10>> \o rest.q, r |-> rest.r]

RECURSIVE ToDec(_)
ToDec(limbs) ==
    IF IsZero(limbs)
    THEN <<>>
    ELSE LET d == DivLimbs(limbs, 0) IN ToDec(d.q) \o <<Digit(d.r)>>

\* u8/u16/u32/u64 to_string
to_string_unsigned(limbs) == IF IsZero(limbs) THEN <<"0">> ELSE ToDec(limbs)

RECURSIVE AddOne(_)
AddOne(limbs) ==
    IF limbs = <<>>
    THEN <<>>
    ELSE LET n == Len(limbs) IN
         IF limbs[n] = 65535
         THEN AddOne(SubSeq(limbs, 1, n - 1)) \o <<0>>
         ELSE SubSeq(limbs, 1, n - 1) \o <<limbs[n] + 1>>

Complement(limbs) == [i \in DOMAIN limbs |-> 65535 - limbs[i]]

\* i64 to_string: the sign and the magnitude (!(n as u64)).wrapping_add(1)
to_string_i64(limbs) ==
    IF limbs[1] < 32768
    THEN to_string_unsigned(limbs)
    ELSE <<"-">> \o to_string_unsigned(AddOne(Complement(limbs)))

\* {:0width} of an unsigned integer: at least width digits, zero-padded
Pad(digits, width) ==
    IF Len(digits) >= width
    THEN digits
    ELSE [i \in 1..(width - Len(digits)) |-> "0"] \o digits

Fmt(n, width) == Pad(to_string_unsigned(<<n>>), width)

\* f32/f64 to_string of the sample floats
FloatNames == {"3.5", "2.5", "0.0", "-1.25", "NaN", "inf", "-inf", "1e21"}
float_to_string(f) ==
    CASE f = "3.5" -> <<"3", ".", "5">>
      [] f = "2.5" -> <<"2", ".", "5">>
      [] f = "0.0" -> <<"0">>
      [] f = "-1.25" -> <<"-", "1", ".", "2", "5">>
      [] f = "NaN" -> <<"N", "a", "N">>
      [] f = "inf" -> <<"i", "n", "f">>
      [] f = "-inf" -> <<"-", "i", "n", "f">>
      [] f = "1e21" -> <<"1", "0", "0", "0", "0", "0", "0", "0", "0", "0", "0", "0", "0", "0", "0", "0", "0", "0", "0", "0", "0", "0">>

\* The characters of code 32..126 (code 96 by its name)
Ascii ==
    <<
      " ", "!", "\"", "#", "$", "%", "&", "'", "(", ")", "*", "+",
      ",", "-", ".", "/", "0", "1", "2", "3", "4", "5", "6", "7",
      "8", "9", ":", ";", "<", "=", ">", "?", "@", "A", "B", "C",
      "D", "E", "F", "G", "H", "I", "J", "K", "L", "M", "N", "O",
      "P", "Q", "R", "S", "T", "U", "V", "W", "X", "Y", "Z", "[",
      "\\", "]", "^", "_", "U+96", "a", "b", "c", "d", "e", "f", "g",
      "h", "i", "j", "k", "l", "m", "n", "o", "p", "q", "r", "s",
      "t", "u", "v", "w", "x", "y", "z", "{", "|", "}", "~"
    >>

Chr(cp) ==
    IF cp >= 32 /\ cp <= 126 THEN Ascii[cp - 31]
    ELSE IF cp = 9 THEN "\t"
    ELSE IF cp = 10 THEN "\n"
    ELSE IF cp = 13 THEN "\r"
    ELSE "U+" \o ToString(cp)

\* UTF-8: the length of the sequence a lead byte starts (0: not a lead byte)
Utf8Width(b) ==
    IF b < 128 THEN 1
    ELSE IF b >= 194 /\ b <= 223 THEN 2
    ELSE IF b >= 224 /\ b <= 239 THEN 3
    ELSE IF b >= 240 /\ b <= 244 THEN 4
    ELSE 0

Utf8SecondOk(lead, b) ==
    CASE lead = 224 -> b >= 160 /\ b <= 191
      [] lead = 237 -> b >= 128 /\ b <= 159
      [] lead = 240 -> b >= 144 /\ b <= 191
      [] lead = 244 -> b >= 128 /\ b <= 143
      [] OTHER -> b >= 128 /\ b <= 191

Utf8CodePoint(s) ==
    CASE Len(s) = 1 -> s[1]
      [] Len(s) = 2 -> (s[1] - 192) * 64 + (s[2] - 128)
      [] Len(s) = 3 -> (s[1] - 224) * 4096 + (s[2] - 128) * 64 + (s[3] - 128)
      [] Len(s) = 4 -> (s[1] - 240) * 262144 + (s[2] - 128) * 4096
                        + (s[3] - 128) * 64 + (s[4] - 128)

\* String::from_utf8
RECURSIVE from_utf8(_)
from_utf8(bytes) ==
    IF bytes = <<>>
    THEN Ok(<<>>)
    ELSE LET w == Utf8Width(bytes[1]) IN
         IF \/ w = 0
            \/ Len(bytes) < w
            \/ (w >= 2 /\ ~Utf8SecondOk(bytes[1], bytes[2]))
            \/ \E i \in 3..w : ~(bytes[i] >= 128 /\ bytes[i] <= 191)
         THEN Err("FromUtf8Error")
         ELSE LET rest == from_utf8(SubSeq(bytes, w + 1, Len(bytes))) IN
              IF rest.ok
              THEN Ok(<<Chr(Utf8CodePoint(SubSeq(bytes, 1, w)))>> \o rest.val)
              ELSE rest

\* format!("{:?}", bytes) of a Vec<u8>
RECURSIVE DebugItems(_)
DebugItems(bytes) ==
    IF bytes = <<>> THEN <<>>
    ELSE IF Len(bytes) = 1 THEN to_string_unsigned(<<bytes[1]>>)
    ELSE to_string_unsigned(<<bytes[1]>>) \o <<",", " ">> \o DebugItems(Tail(bytes))

debug_bytes(bytes) == <<"[">> \o DebugItems(bytes) \o <<"]">>

\* The outcome of a coercion: a string, or a panic of the process
Str(s, wrapped) == [panic |-> FALSE, wrapped |-> wrapped, str |-> s]
Panic == [panic |-> TRUE, wrapped |-> FALSE, str |-> <<>>]

\* days * 24 + hours as u32, before it is cut to 32 bits
hours_exact(days, hours) ==
    LET lo == days[2] * 24 + hours
    IN <<days[1] * 24 + lo \div 65536, lo % 65536>>

clock(minutes, seconds, microseconds) ==
    <<":">> \o Fmt(minutes, 2) \o <<":">> \o Fmt(seconds, 2)
        \o <<".">> \o Fmt(microseconds, 6)

\* The Date arm written with the long form for every date
format_date_always_long(v) ==
    Fmt(v.year, 4) \o <<"-">> \o Fmt(v.month, 2) \o <<"-">> \o Fmt(v.day, 2)
        \o <<" ">> \o Fmt(v.hour, 2) \o clock(v.minute, v.second, v.microsecond)

\* The Date arm of mysql_value_to_string
format_date(v) ==
    IF v.hour = 0 /\ v.minute = 0 /\ v.second = 0 /\ v.microsecond = 0
    THEN Fmt(v.year, 4) \o <<"-">> \o Fmt(v.month, 2) \o <<"-">> \o Fmt(v.day, 2)
    ELSE Fmt(v.year, 4) \o <<"-">> \o Fmt(v.month, 2) \o <<"-">> \o Fmt(v.day, 2)
            \o <<" ">> \o Fmt(v.hour, 2) \o clock(v.minute, v.second, v.microsecond)

\* The Time arm of mysql_value_to_string; on overflow of the u32 hour count a
\* build with overflow checks panics and one without wraps.
format_time(v, checks) ==
    LET sign == IF v.negative THEN <<"-">> ELSE <<>> IN
    IF ~IsZero(v.days)
    THEN LET x == hours_exact(v.days, v.hours)
             over == x[1] >= 65536
         IN IF over /\ checks
            THEN Panic
            ELSE Str(sign \o Pad(to_string_unsigned(<<x[1] % 65536, x[2]>>), 2)
                        \o clock(v.minutes, v.seconds, v.microseconds), over)
    ELSE Str(sign \o Fmt(v.hours, 2) \o clock(v.minutes, v.seconds, v.microseconds),
             FALSE)

\* mysql_value_to_string
mysql_value_to_string(v, checks) ==
    CASE v.tag = "NULL" -> Str(<<>>, FALSE)
      [] v.tag = "Bytes" ->
            LET s == from_utf8(v.bytes) IN
            Str(IF s.ok THEN s.val ELSE debug_bytes(v.bytes), FALSE)
      [] v.tag = "Int" -> Str(to_string_i64(v.i), FALSE)
      [] v.tag = "UInt" -> Str(to_string_unsigned(v.u), FALSE)
      [] v.tag = "Float" -> Str(float_to_string(v.f), FALSE)
      [] v.tag = "Double" -> Str(float_to_string(v.d), FALSE)
      [] v.tag = "Date" -> Str(format_date(v), FALSE)
      [] v.tag = "Time" -> format_time(v, checks)

\* The sample values
ByteStrings ==
    {<<>>, <<104, 105>>, <<255, 254, 253>>, <<195, 169>>, <<195, 40>>, <<128>>,
     <<226, 130, 172>>, <<237, 160, 128>>, <<240, 159, 146, 150>>, <<84, 114, 117, 101, 32>>}
I64s ==
    {<<0, 0, 0, 0>>, <<0, 0, 0, 42>>, <<65535, 65535, 65535, 65494>>,
     <<32767, 65535, 65535, 65535>>, <<32768, 0, 0, 0>>, <<65535, 65535, 65535, 65535>>}
U64s ==
    {<<0, 0, 0, 0>>, <<0, 0, 0, 123>>, <<32768, 0, 0, 0>>,
     <<65535, 65535, 65535, 65535>>}
Dates ==
    {[tag |-> "Date", year |-> y, month |-> 12, day |-> d, hour |-> h,
      minute |-> mi, second |-> s, microsecond |-> us] :
        y \in {2023, 999}, d \in {25, 1}, h \in {0, 14}, mi \in {0, 30}, s \in {0, 45},
        us \in {0, 123456}}
DaysU32 ==
    {<<0, 0>>, <<0, 1>>, <<0, 34>>, <<2730, 43690>>, <<2730, 43691>>, <<65535, 65535>>}
Times ==
    {[tag |-> "Time", negative |-> n, days |-> d, hours |-> h, minutes |-> t[1],
      seconds |-> t[2], microseconds |-> t[3]] :
        n \in BOOLEAN, d \in DaysU32, h \in {0, 2, 14, 255},
        t \in {<<30, 45, 0>>, <<30, 45, 123456>>}}
Values ==
    {NULL}
    \cup {[tag |-> "Bytes", bytes |-> b] : b \in ByteStrings}
    \cup {[tag |-> "Int", i |-> i] : i \in I64s}
    \cup {[tag |-> "UInt", u |-> u] : u \in U64s}
    \cup {[tag |-> "Float", f |-> f] : f \in FloatNames}
    \cup {[tag |-> "Double", d |-> f] : f \in FloatNames}
    \cup Dates
    \cup Times

ValInit ==
    /\ TlsIdle
    /\ ErrIdle
    /\ PipeIdle
    /\ RestIdle
    /\ vpc = "start"
    /\ value \in Values
    /\ overflow_checks \in BOOLEAN
    /\ coerced = Unset

Coerce ==
    /\ vpc = "start"
    /\ coerced' = mysql_value_to_string(value, overflow_checks)
    /\ vpc' = "done"
    /\ UNCHANGED <<value, overflow_checks>>
    /\ UNCHANGED <<tlsVars, errVars, pipeVars, restVars>>

ValNext == Coerce

ValSpec == ValInit /\ [][ValNext]_vars

\* --------------------------------------------------- claims on the coercion
Coerced == vpc = "done"
ValidUtf8(bytes) == from_utf8(bytes).ok

\* C12: value coercion is total: for every database value (NULL, UTF-8 and
\* non-UTF-8 bytes, any i64, any u64, floats, any Date, and any Time with any
\* sign, any 32-bit day count and any 8-bit hour count) mysql_value_to_string
\* returns a string and never panics or overflows; non-UTF-8 bytes give a
\* non-empty representation.
C12_CoercionTotal ==
    Coerced =>
        /\ ~coerced.panic
        /\ ~coerced.wrapped
        /\ (value.tag = "Bytes" /\ ~ValidUtf8(value.bytes)) => coerced.str # <<>>

\* The Time format that C13 states, with the hour field days*24 + h computed
\* without a bound
TimeText(v) ==
    (IF v.negative THEN <<"-">> ELSE <<>>)
        \o (IF ~IsZero(v.days)
            THEN Pad(to_string_unsigned(hours_exact(v.days, v.hours)), 2)
            ELSE Fmt(v.hours, 2))
        \o <<":">> \o Fmt(v.minutes, 2) \o <<":">> \o Fmt(v.seconds, 2)
        \o <<".">> \o Fmt(v.microseconds, 6)

\* C13: a Time(negative, days, h, m, s, us) value coerces to
\* sign + HH:MM:SS.UUUUUU where sign is "-" iff negative, the hour field is
\* days*24 + h when days > 0 and h otherwise (at least 2 digits, not truncated
\* when larger), minutes and seconds 2-digit and microseconds 6-digit
\* zero-padded; Time(true,1,2,30,45,0) gives "-26:30:45.000000".
C13_TimeFormat ==
    (Coerced /\ value.tag = "Time") =>
        /\ ~coerced.panic
        /\ coerced.str = TimeText(value)
        /\ (value = [tag |-> "Time", negative |-> TRUE, days |-> <<0, 1>>, hours |-> 2,
                     minutes |-> 30, seconds |-> 45, microseconds |-> 0])
              => coerced.str = <<"-", "2", "6", ":", "3", "0", ":", "4", "5", ".", "0", "0", "0", "0", "0", "0">>

\* C13 where days*24 + h fits 32 bits
C13_TimeFormatWithoutOverflow ==
    (Coerced /\ value.tag = "Time" /\ hours_exact(value.days, value.hours)[1] < 65536) =>
        /\ ~coerced.panic
        /\ coerced.str = TimeText(value)

\* C14: a Date(y,m,d,h,mi,s,us) value coerces to "YYYY-MM-DD" exactly when
\* hour, minute, second and microsecond are all zero, and to
\* "YYYY-MM-DD HH:MM:SS.UUUUUU" (zero-padded, 6-digit microseconds) as soon
\* as any of the four is non-zero.
C14_DateFormat ==
    (Coerced /\ value.tag = "Date") =>
        LET ymd == Fmt(value.year, 4) \o <<"-">> \o Fmt(value.month, 2) \o <<"-">>
                      \o Fmt(value.day, 2)
            full == ymd \o <<" ">> \o Fmt(value.hour, 2) \o <<":">>
                      \o Fmt(value.minute, 2) \o <<":">> \o Fmt(value.second, 2)
                      \o <<".">> \o Fmt(value.microsecond, 6)
            midnight == value.hour = 0 /\ value.minute = 0 /\ value.second = 0
                          /\ value.microsecond = 0
        IN /\ ~coerced.panic
           /\ Len(ymd) = 10 /\ Len(full) = 26
           /\ midnight => coerced.str = ymd
           /\ ~midnight => coerced.str = full
           /\ (coerced.str = ymd) <=> midnight

C14_Witness ==
    /\ Coerced
    /\ value.tag = "Date"
    /\ value.hour = 0 /\ value.minute = 0 /\ value.second = 0
    /\ value.microsecond = 123456
    /\ coerced.str = <<"0", "9", "9", "9", "-", "1", "2", "-", "0", "1", " ", "0", "0", ":", "0", "0", ":", "0", "0", ".", "1", "2", "3", "4", "5", "6">>

\* ------------------------------------------------------- parsing of cells
Digits == {"0", "1", "2", "3", "4", "5", "6", "7", "8", "9"}
IsDigit(c) == c \in Digits
AllDigits(s) == \A i \in DOMAIN s : IsDigit(s[i])

\* char::to_lowercase of the ASCII letters; other characters stay
Upper == <<"A", "B", "C", "D", "E", "F", "G", "H", "I", "J", "K", "L", "M",
           "N", "O", "P", "Q", "R", "S", "T", "U", "V", "W", "X", "Y", "Z">>
Lower == <<"a", "b", "c", "d", "e", "f", "g", "h", "i", "j", "k", "l", "m",
           "n", "o", "p", "q", "r", "s", "t", "u", "v", "w", "x", "y", "z">>
LowerChar(c) ==
    IF \E i \in DOMAIN Upper : Upper[i] = c
    THEN Lower[CHOOSE i \in DOMAIN Upper : Upper[i] = c]
    ELSE c
to_lowercase(s) == [i \in DOMAIN s |-> LowerChar(s[i])]

\* A digit string without its leading zeros ("0" for zero)
RECURSIVE StripZeros(_)
StripZeros(s) ==
    IF Len(s) > 1 /\ s[1] = "0" THEN StripZeros(Tail(s)) ELSE s

DigitVal(c) == CHOOSE d \in 0..9 : Digit(d) = c

\* Comparison of two canonical digit strings as numbers
RECURSIVE DigitsLess(_, _)
DigitsLess(a, b) ==
    IF Len(a) # Len(b) THEN Len(a) < Len(b)
    ELSE IF a = <<>> THEN FALSE
    ELSE IF a[1] # b[1] THEN DigitVal(a[1]) < DigitVal(b[1])
    ELSE DigitsLess(Tail(a), Tail(b))
DigitsLeq(a, b) == a = b \/ DigitsLess(a, b)

U64Max == <<"1", "8", "4", "4", "6", "7", "4", "4", "0", "7", "3", "7", "0", "9", "5", "5", "1", "6", "1", "5">>
I64Max == <<"9", "2", "2", "3", "3", "7", "2", "0", "3", "6", "8", "5", "4", "7", "7", "5", "8", "0", "7">>
I64MinMagnitude == <<"9", "2", "2", "3", "3", "7", "2", "0", "3", "6", "8", "5", "4", "7", "7", "5", "8", "0", "8">>

\* str::parse::<u64>: an optional "+", then one or more digits, in range
parse_u64(s) ==
    LET body == IF s # <<>> /\ s[1] = "+" THEN Tail(s) ELSE s IN
    IF body = <<>> \/ ~AllDigits(body) \/ ~DigitsLeq(StripZeros(body), U64Max)
    THEN Err("ParseIntError")
    ELSE Ok([neg |-> FALSE, digits |-> StripZeros(body)])

\* str::parse::<i64>: an optional sign, then one or more digits, in range
parse_i64(s) ==
    LET neg == s # <<>> /\ s[1] = "-"
        body == IF s # <<>> /\ s[1] \in {"+", "-"} THEN Tail(s) ELSE s
    IN IF \/ body = <<>>
          \/ ~AllDigits(body)
          \/ ~DigitsLeq(StripZeros(body), IF neg THEN I64MinMagnitude ELSE I64Max)
       THEN Err("ParseIntError")
       ELSE Ok([neg |-> neg /\ StripZeros(body) # <<"0">>, digits |-> StripZeros(body)])

\* str::parse::<i128>, for strings shorter than the 39 digits of its range
parse_i128(s) ==
    LET body == IF s # <<>> /\ s[1] \in {"+", "-"} THEN Tail(s) ELSE s
    IN IF body = <<>> \/ ~AllDigits(body) \/ Len(StripZeros(body)) >= 39
       THEN Err("ParseIntError")
       ELSE Ok(StripZeros(body))

\* The longest prefix of digits of s
RECURSIVE DigitPrefix(_)
DigitPrefix(s) ==
    IF s # <<>> /\ IsDigit(s[1]) THEN <<s[1]>> \o DigitPrefix(Tail(s)) ELSE <<>>

\* A short digit string as a number (exponents)
RECURSIVE SmallNat(_)
SmallNat(s) ==
    IF s = <<>> THEN 0 ELSE SmallNat(SubSeq(s, 1, Len(s) - 1)) * 10 + DigitVal(s[Len(s)])

\* A digit string without its trailing zeros
RECURSIVE StripTrailingZeros(_)
StripTrailingZeros(s) ==
    IF s # <<>> /\ s[Len(s)] = "0" THEN StripTrailingZeros(SubSeq(s, 1, Len(s) - 1)) ELSE s

RECURSIVE LeadingZeros(_)
LeadingZeros(s) == IF s # <<>> /\ s[1] = "0" THEN 1 + LeadingZeros(Tail(s)) ELSE 0

\* The digits of f64::MAX, 1.7976931348623157e308, and of the first decimal
\* that rounds to infinity
F64Overflow == <<"1", "7", "9", "7", "6", "9", "3", "1", "3", "4", "8", "6", "2", "3", "1", "5", "8">>

RECURSIVE PrefixLess(_, _)
PrefixLess(a, b) ==
    IF b = <<>> THEN FALSE
    ELSE IF a = <<>> THEN TRUE
    ELSE IF a[1] # b[1] THEN DigitVal(a[1]) < DigitVal(b[1])
    ELSE PrefixLess(Tail(a), Tail(b))

\* str::parse::<f64>: [sign] (inf | infinity | nan | digits [. digits] [e [sign] digits]),
\* letters in any case, at least one digit beside the point.  The value is the
\* sign, the significant digits d1 d2 ... and the exponent of d1.d2... * 10^exp;
\* it is infinite when it is beyond f64::MAX.
parse_f64(s) ==
    LET signed == s # <<>> /\ s[1] \in {"+", "-"}
        neg == s # <<>> /\ s[1] = "-"
        body == IF signed THEN Tail(s) ELSE s
        low == to_lowercase(body)
        int == DigitPrefix(body)
        afterInt == SubSeq(body, Len(int) + 1, Len(body))
        hasPoint == afterInt # <<>> /\ afterInt[1] = "."
        frac == IF hasPoint THEN DigitPrefix(Tail(afterInt)) ELSE <<>>
        afterFrac == IF hasPoint
                     THEN SubSeq(afterInt, Len(frac) + 2, Len(afterInt))
                     ELSE afterInt
        hasExp == afterFrac # <<>> /\ afterFrac[1] \in {"e", "E"}
        expSigned == hasExp /\ Len(afterFrac) >= 2 /\ afterFrac[2] \in {"+", "-"}
        expNeg == expSigned /\ afterFrac[2] = "-"
        expDigits == IF hasExp
                     THEN SubSeq(afterFrac, IF expSigned THEN 3 ELSE 2, Len(afterFrac))
                     ELSE <<>>
        wellFormed == /\ Len(int) + Len(frac) >= 1
                      /\ IF hasExp
                         THEN expDigits # <<>> /\ AllDigits(expDigits)
                         ELSE afterFrac = <<>>
        all == int \o frac
        sig == StripTrailingZeros(SubSeq(all, LeadingZeros(all) + 1, Len(all)))
        huge == Len(StripZeros(expDigits)) > 4
        e == IF huge THEN 99999 ELSE SmallNat(expDigits)
        exp10 == (IF expNeg THEN 0 - e ELSE e) + Len(int) - LeadingZeros(all) - 1
        infinite == /\ sig # <<>>
                    /\ \/ exp10 > 308
                       \/ exp10 = 308 /\ ~PrefixLess(sig, F64Overflow)
    IN IF low \in {<<"i", "n", "f">>, <<"i", "n", "f", "i", "n", "i", "t", "y">>}
       THEN Ok([class |-> "inf", neg |-> neg, sig |-> <<>>, exp10 |-> 0])
       ELSE IF low = <<"n", "a", "n">>
       THEN Ok([class |-> "nan", neg |-> neg, sig |-> <<>>, exp10 |-> 0])
       ELSE IF ~wellFormed
       THEN Err("ParseFloatError")
       ELSE IF infinite
       THEN Ok([class |-> "inf", neg |-> neg, sig |-> <<>>, exp10 |-> 0])
       ELSE IF sig = <<>>
       THEN Ok([class |-> "finite", neg |-> neg, sig |-> <<>>, exp10 |-> 0])
       ELSE Ok([class |-> "finite", neg |-> neg, sig |-> sig, exp10 |-> exp10])

\* f64::is_finite, as serde_json::Number::from_f64 tests it
is_finite(f) == f.class = "finite"

\* ------------------------------------------------------------ JSON writer
\* serde_json::Value of a cell
JString(s) == [j |-> "string", s |-> s]
JBool(b) == [j |-> "bool", b |-> b]
JNumber(kind, n) == [j |-> "number", kind |-> kind, n |-> n]

\* The cell typing of write_row without the two integer parses
json_value_no_integers(val) ==
    IF val = <<>>
    THEN JString(val)
    ELSE IF parse_f64(val).ok
    THEN IF is_finite(parse_f64(val).val)
         THEN JNumber("f64", parse_f64(val).val)
         ELSE JString(val)
    ELSE IF to_lowercase(val) = <<"t", "r", "u", "e">> \/ to_lowercase(val) = <<"f", "a", "l", "s", "e">>
    THEN JBool(to_lowercase(val) = <<"t", "r", "u", "e">>)
    ELSE JString(val)

\* The cell typing of write_row with an empty cell written as null
json_value_null_for_empty(val) ==
    IF val = <<>>
    THEN [j |-> "null"]
    ELSE IF parse_u64(val).ok
    THEN JNumber("u64", parse_u64(val).val)
    ELSE IF parse_i64(val).ok
    THEN JNumber("i64", parse_i64(val).val)
    ELSE IF parse_f64(val).ok /\ is_finite(parse_f64(val).val)
    THEN JNumber("f64", parse_f64(val).val)
    ELSE IF to_lowercase(val) = <<"t", "r", "u", "e">> \/ to_lowercase(val) = <<"f", "a", "l", "s", "e">>
    THEN JBool(to_lowercase(val) = <<"t", "r", "u", "e">>)
    ELSE JString(val)

\* The cell typing of JsonWriter::write_row
json_value(val) ==
    IF val = <<>>
    THEN JString(val)
    ELSE IF parse_u64(val).ok
    THEN JNumber("u64", parse_u64(val).val)
    ELSE IF parse_i64(val).ok
    THEN JNumber("i64", parse_i64(val).val)
    ELSE IF parse_f64(val).ok
    THEN IF is_finite(parse_f64(val).val)
         THEN JNumber("f64", parse_f64(val).val)
         ELSE JString(val)
    ELSE IF to_lowercase(val) = <<"t", "r", "u", "e">> \/ to_lowercase(val) = <<"f", "a", "l", "s", "e">>
    THEN JBool(to_lowercase(val) = <<"t", "r", "u", "e">>)
    ELSE JString(val)

\* The byte order of strings (Ord for String), on ASCII characters
Ord(c) == CHOOSE i \in DOMAIN Ascii : Ascii[i] = c
RECURSIVE StrLess(_, _)
StrLess(a, b) ==
    IF b = <<>> THEN FALSE
    ELSE IF a = <<>> THEN TRUE
    ELSE IF a[1] # b[1] THEN Ord(a[1]) < Ord(b[1])
    ELSE StrLess(Tail(a), Tail(b))

\* The keys of a BTreeMap in iteration order
RECURSIVE SortedKeys(_)
SortedKeys(keys) ==
    IF keys = {} THEN <<>>
    ELSE LET least == CHOOSE k \in keys : \A o \in keys \ {k} : StrLess(k, o)
         IN <<least>> \o SortedKeys(keys \ {least})

Min(a, b) == IF a <= b THEN a ELSE b

\* The keys of an object in the order of the header
RECURSIVE HeaderKeys(_, _)
HeaderKeys(columns, n) ==
    IF n = 0 THEN <<>>
    ELSE LET before == HeaderKeys(columns, n - 1) IN
         IF \E i \in DOMAIN before : before[i] = columns[n]
         THEN before
         ELSE before \o <<columns[n]>>

\* write_row with the members kept in header order
row_object_header_order(columns, row) ==
    LET n == Min(Len(columns), Len(row))
        keys == HeaderKeys(columns, n)
        last(k) == CHOOSE i \in 1..n :
                      columns[i] = k /\ \A o \in (i + 1)..n : columns[o] # k
    IN [i \in DOMAIN keys |-> [key |-> keys[i], value |-> json_value(row[last(keys[i])])]]

\* write_row with the first value of a repeated key kept
row_object_first_wins(columns, row) ==
    LET n == Min(Len(columns), Len(row))
        keys == SortedKeys({columns[i] : i \in 1..n})
        first(k) == CHOOSE i \in 1..n :
                       columns[i] = k /\ \A o \in 1..(i - 1) : columns[o] # k
    IN [i \in DOMAIN keys |-> [key |-> keys[i], value |-> json_value(row[first(keys[i])])]]

\* The object write_row serializes: columns zipped with the cells, inserted
\* in order into a BTreeMap, listed in key order
row_object(columns, row) ==
    LET n == Min(Len(columns), Len(row))
        keys == SortedKeys({columns[i] : i \in 1..n})
        last(k) == CHOOSE i \in 1..n :
                      columns[i] = k /\ \A o \in (i + 1)..n : columns[o] # k
    IN [i \in DOMAIN keys |-> [key |-> keys[i], value |-> json_value(row[last(keys[i])])]]

\* What the writer has put on its sink, piece by piece
Raw(text) == [t |-> "raw", text |-> text]
Object(members, indent) == [t |-> "object", members |-> members, pretty |-> indent]
OpenData == Raw("{\"data\":[")
Comma == Raw(",")
CloseData == Raw("]}")

\* JsonWriter::new
JsonWriter(indent) ==
    [columns |-> <<>>, first_row |-> TRUE, pretty |-> indent, writer |-> <<>>]

\* JsonWriter::write_header
write_header(w, columns) ==
    [w EXCEPT !.columns = columns, !.first_row = TRUE, !.writer = @ \o <<OpenData>>]

\* write_row putting a comma before every object
write_row_comma_always(w, row) ==
    [w EXCEPT !.first_row = FALSE,
              !.writer = @ \o <<Comma>> \o <<Object(row_object(w.columns, row), w.pretty)>>]

\* JsonWriter::write_row
write_row(w, row) ==
    [w EXCEPT !.first_row = FALSE,
              !.writer = @ \o (IF w.first_row THEN <<>> ELSE <<Comma>>)
                           \o <<Object(row_object(w.columns, row), w.pretty)>>]

\* JsonWriter::finalize
finalize(w) == [w EXCEPT !.writer = @ \o <<CloseData>>]

\* ------------------------------------------------------ the result matrix
\* rows_to_strings without the header row
rows_to_strings_no_header(rs, checks) ==
    [i \in 1..Len(rs) |->
        [j \in 1..Len(rs[i].values) |->
            IF rs[i].values[j].some
            THEN mysql_value_to_string(rs[i].values[j].val, checks).str
            ELSE <<>>]]

\* rows_to_strings; a Row is its columns' names and its values, each present
\* (Some) or taken out of the row (None)
rows_to_strings(rs, checks) ==
    IF rs = <<>>
    THEN <<>>
    ELSE <<rs[1].columns>>
            \o [i \in 1..Len(rs) |->
                  [j \in 1..Len(rs[i].values) |->
                      IF rs[i].values[j].some
                      THEN mysql_value_to_string(rs[i].values[j].val, checks).str
                      ELSE <<>>]]

\* ------------------------------------------------- the CSV and TSV writers
\* csv_core's is_non_numeric: neither an f64 nor an i128
is_non_numeric(field) == ~parse_f64(field).ok /\ ~parse_i128(field).ok

\* csv_core's needs_quotes: the delimiter, the quote or a line break occurs
needs_quotes(field, delimiter) ==
    \E i \in DOMAIN field : field[i] \in {delimiter, "\"", "\r", "\n"}

\* QuoteStyle::NonNumeric read as QuoteStyle::Necessary
should_quote_only_when_necessary(style, field, delimiter) ==
    needs_quotes(field, delimiter)

\* csv_core's should_quote for the two styles in use
should_quote(style, field, delimiter) ==
    CASE style = "NonNumeric" -> is_non_numeric(field)
      [] style = "Necessary" -> needs_quotes(field, delimiter)

\* A field between quotes, its quotes doubled
RECURSIVE DoubleQuotes(_)
DoubleQuotes(field) ==
    IF field = <<>> THEN <<>>
    ELSE (IF field[1] = "\"" THEN <<"\"", "\"">> ELSE <<field[1]>>)
            \o DoubleQuotes(Tail(field))

write_field(style, field, delimiter) ==
    IF should_quote(style, field, delimiter)
    THEN <<"\"">> \o DoubleQuotes(field) \o <<"\"">>
    ELSE field

RECURSIVE JoinFields(_, _, _)
JoinFields(style, record, delimiter) ==
    IF record = <<>> THEN <<>>
    ELSE IF Len(record) = 1 THEN write_field(style, record[1], delimiter)
    ELSE write_field(style, record[1], delimiter) \o <<delimiter>>
            \o JoinFields(style, Tail(record), delimiter)

\* Writer::write_record: the fields, then the terminator; a record that put
\* no byte out is written as an empty quoted field
write_record(style, record, delimiter) ==
    LET fields == JoinFields(style, record, delimiter) IN
    (IF fields = <<>> THEN <<"\"", "\"">> ELSE fields) \o <<"\n">>

\* The records written one after the other; a record whose length differs
\* from the first one's is an error (the writer is not flexible)
RECURSIVE WriteRecords(_, _, _, _)
WriteRecords(style, records, delimiter, width) ==
    IF records = <<>> THEN [ok |-> TRUE, out |-> <<>>]
    ELSE IF width >= 0 /\ Len(records[1]) # width
    THEN [ok |-> FALSE, out |-> <<>>]
    ELSE LET rest == WriteRecords(style, Tail(records), delimiter, Len(records[1]))
         IN [ok |-> rest.ok,
             out |-> <<write_record(style, records[1], delimiter)>> \o rest.out]

\* csv::write
csv_write(records) == WriteRecords("NonNumeric", records, ",", 0 - 1)

\* tab::write
tab_write(records) == WriteRecords("Necessary", records, "\t", 0 - 1)

\* ------------------------------------------------------- the output run
MaxRows == 2

\* The result sets: rows of one schema, each value present or taken
Schemas == {<<<<"i", "d">>>>, <<<<"b">>, <<"a">>>>, <<<<"x">>, <<"x">>>>}
CellValues ==
    {None, Some(NULL), Some([tag |-> "Bytes", bytes |-> <<104, 105>>]),
     Some([tag |-> "Int", i |-> <<0, 0, 0, 42>>])}
RowsOf(schema) ==
    {[columns |-> schema, values |-> v] : v \in [DOMAIN schema -> CellValues]}
ResultSets ==
    UNION {UNION {[1..n -> RowsOf(schema)] : n \in 0..MaxRows} : schema \in Schemas}

\* The matrices handed to a writer directly
CellStrings ==
    {<<>>,
     <<"0">>,
     <<"0", "0", "1", "2", "3">>,
     <<"+", "5">>,
     <<"-", "1", "2", "3">>,
     <<"-", "0">>,
     <<"1", "8", "4", "4", "6", "7", "4", "4", "0", "7", "3", "7", "0", "9", "5", "5", "1", "6", "1", "5">>,
     <<"1", "8", "4", "4", "6", "7", "4", "4", "0", "7", "3", "7", "0", "9", "5", "5", "1", "6", "1", "6">>,
     <<"-", "9", "2", "2", "3", "3", "7", "2", "0", "3", "6", "8", "5", "4", "7", "7", "5", "8", "0", "8">>,
     <<"1", ".", "5">>,
     <<"1", ".", "2", "3", "e", "-", "4">>,
     <<"1", ".", "2", "3", "e", "9", "9", "9">>,
     <<"i", "n", "f">>,
     <<"N", "a", "N">>,
     <<"T", "R", "U", "E">>,
     <<"t", "r", "u", "e">>,
     <<"f", "a", "l", "s", "e">>,
     <<"F", "A", "L", "S", "E">>,
     <<"T", "r", "u", "e", " ">>,
     <<"h", "e", "l", "l", "o">>,
     <<"v", "a", "l", "1">>,
     <<"a", "\"", "b">>,
     <<"a", ",", "b">>,
     <<"a", "\t", "b">>,
     <<"t", "w", "o", "\n", "l", "i", "n", "e", "s">>,
     <<" ", "1">>,
     <<"1", "e", "5">>}
ApiHeaders ==
    {<<>>, <<<<"b">>, <<"a">>>>, <<<<"a">>, <<"b">>>>, <<<<"x">>, <<"x">>>>, <<<<"i", "d">>, <<"n", "a", "m", "e">>>>, <<<<"n", "a", "m", "e">>, <<"a", "g", "e">>>>}
ApiRows ==
    {<<<<"1">>, <<"t", "e", "s", "t">>>>, <<<<"t", "e", "s", "t">>, <<"1">>>>, <<<<"A", "l", "i", "c", "e">>, <<"3", "0">>>>, <<<<"o", "n", "l", "y">>>>, <<<<"1">>, <<"2">>, <<"3">>>>, <<<<>>, <<>>>>}
Matrices ==
    {<<>>}
    \cup {<<h>> : h \in ApiHeaders}
    \cup {<<<<<<"v">>>>, <<c>>>> : c \in CellStrings}
    \cup {<<h, r>> : h \in ApiHeaders, r \in ApiRows}
    \cup {<<<<<<"n", "a", "m", "e">>, <<"a", "g", "e">>>>, <<<<"A", "l", "i", "c", "e">>, <<"3", "0">>>>, <<<<"B", "o", "b">>, <<"2", "5">>>>>>,
          <<<<<<"c", "o", "l", "1">>, <<"c", "o", "l", "2">>>>, <<<<"v", "a", "l", "1">>, <<"v", "a", "l", "2">>>>, <<<<"v", "a", "l", "3">>, <<"v", "a", "l", "4">>>>>>}

\* Either a result set goes through rows_to_strings and then to a writer, or
\* a writer is called on a matrix.
OutInit ==
    /\ TlsIdle
    /\ ErrIdle
    /\ ValIdle
    /\ RestIdle
    /\ \/ opc = "start" /\ rows \in ResultSets /\ matrix = <<>>
       \/ opc = "matrix" /\ rows = <<>> /\ matrix \in Matrices
    /\ format \in {"json", "csv", "tab"}
    /\ IF format = "json" THEN pretty \in BOOLEAN ELSE pretty = FALSE
    /\ jw = JsonWriter(FALSE)
    /\ next_row = 0
    /\ sink = Unset

RowsToStrings ==
    /\ opc = "start"
    /\ matrix' = rows_to_strings(rows, overflow_checks)
    /\ opc' = "matrix"
    /\ UNCHANGED <<rows, format, pretty, jw, next_row, sink>>
    /\ UNCHANGED <<tlsVars, errVars, valVars, restVars>>

\* write_with_pretty: JsonWriter::new and write_header with the first row, or
\* with no columns when there is no row
JsonWriteHeader ==
    /\ opc = "matrix"
    /\ format = "json"
    /\ jw' = write_header(JsonWriter(pretty), IF matrix = <<>> THEN <<>> ELSE matrix[1])
    /\ next_row' = 2
    /\ opc' = "rows"
    /\ UNCHANGED <<rows, matrix, format, pretty, sink>>
    /\ UNCHANGED <<tlsVars, errVars, valVars, restVars>>

\* write_with_pretty: write_row with the next row of rows_iter
JsonWriteRow ==
    /\ opc = "rows"
    /\ next_row <= Len(matrix)
    /\ jw' = write_row(jw, matrix[next_row])
    /\ next_row' = next_row + 1
    /\ UNCHANGED <<opc, rows, matrix, format, pretty, sink>>
    /\ UNCHANGED <<tlsVars, errVars, valVars, restVars>>

\* write_with_pretty: finalize once rows_iter is exhausted
JsonFinalize ==
    /\ opc = "rows"
    /\ next_row > Len(matrix)
    /\ jw' = finalize(jw)
    /\ opc' = "done"
    /\ UNCHANGED <<rows, matrix, format, pretty, next_row, sink>>
    /\ UNCHANGED <<tlsVars, errVars, valVars, restVars>>

CsvWrite ==
    /\ opc = "matrix"
    /\ format = "csv"
    /\ sink' = csv_write(matrix)
    /\ opc' = "done"
    /\ UNCHANGED <<rows, matrix, format, pretty, jw, next_row>>
    /\ UNCHANGED <<tlsVars, errVars, valVars, restVars>>

TabWrite ==
    /\ opc = "matrix"
    /\ format = "tab"
    /\ sink' = tab_write(matrix)
    /\ opc' = "done"
    /\ UNCHANGED <<rows, matrix, format, pretty, jw, next_row>>
    /\ UNCHANGED <<tlsVars, errVars, valVars, restVars>>

OutNext ==
    \/ RowsToStrings
    \/ JsonWriteHeader
    \/ JsonWriteRow
    \/ JsonFinalize
    \/ CsvWrite
    \/ TabWrite

OutSpec == OutInit /\ [][OutNext]_vars

\* ------------------------------------------------ claims on the output run
IsObject(piece) == piece.t = "object"
Objects == SelectSeq(jw.writer, IsObject)
\* The matrix rows write_row has been called with: 2 .. next_row - 1
WrittenRows == IF opc \in {"rows", "done"} THEN 2..(next_row - 1) ELSE {}
Paired(r) == 1..Min(Len(matrix[1]), Len(matrix[r]))
\* Column j is the last of its name among the columns paired with row r
LastOfName(r, j) == \A o \in Paired(r) : o > j => matrix[1][o] # matrix[1][j]
ValueOf(members, key) == members[CHOOSE m \in DOMAIN members : members[m].key = key].value
Absent(v) == ~v.some
IsNull(v) == v.some /\ v.val.tag = "NULL"

\* C15: a NULL cell (and a cell whose value is absent from the row) always
\* becomes the empty string in the result matrix, and that cell is written by
\* the JSON writer as the JSON string "" and never as JSON null.
C15_NullIsEmptyString ==
    /\ (opc # "start" /\ rows # <<>>) =>
          \A i \in DOMAIN rows : \A j \in DOMAIN rows[i].values :
              (Absent(rows[i].values[j]) \/ IsNull(rows[i].values[j]))
                  => matrix[i + 1][j] = <<>>
    /\ \A r \in WrittenRows : \A j \in Paired(r) :
          (matrix[r][j] = <<>> /\ LastOfName(r, j))
              => ValueOf(Objects[r - 1].members, matrix[1][j]) = JString(<<>>)
    /\ \A k \in DOMAIN Objects : \A m \in DOMAIN Objects[k].members :
          Objects[k].members[m].value.j \in {"string", "number", "bool"}

C15_Witness ==
    /\ opc = "done"
    /\ format = "json"
    /\ Len(rows) = 2
    /\ rows[1].columns = <<<<"b">>, <<"a">>>>
    /\ IsNull(rows[1].values[1])
    /\ Absent(rows[2].values[2])
    /\ ValueOf(Objects[1].members, <<"b">>) = JString(<<>>)
    /\ ValueOf(Objects[2].members, <<"a">>) = JString(<<>>)

\* C16: for a non-empty input of n rows with a uniform schema, rows_to_strings
\* returns exactly n+1 rows: row 0 is the column names of the first input row
\* in result-set order, row i+1 holds the coerced cells of input row i in the
\* same column order, and every data row has the same length as the header;
\* for an empty input it returns an empty matrix with no header.
C16_MatrixShape ==
    [][(opc = "start" /\ opc' = "matrix") =>
          IF rows = <<>>
          THEN matrix' = <<>>
          ELSE /\ Len(matrix') = Len(rows) + 1
               /\ matrix'[1] = rows[1].columns
               /\ \A i \in DOMAIN rows :
                     /\ Len(matrix'[i + 1]) = Len(matrix'[1])
                     /\ \A j \in DOMAIN rows[i].values :
                           matrix'[i + 1][j] =
                              IF rows[i].values[j].some
                              THEN mysql_value_to_string(rows[i].values[j].val,
                                                         overflow_checks).str
                              ELSE <<>>]_vars

C16_Witness ==
    /\ opc = "matrix"
    /\ Len(rows) = 2
    /\ matrix = <<<<<<"b">>, <<"a">>>>, <<<<"h", "i">>, <<"4", "2">>>>, <<<<>>, <<"h", "i">>>>>>

\* C17: write_row types each cell by this strict priority: empty string gives
\* JSON string ""; else a string parseable as u64 gives that exact JSON number
\* (u64::MAX stays 18446744073709551615); else parseable as i64 gives that
\* number; else parseable as a finite f64 gives a number, while an overflowing
\* value such as "1.23e999" falls back to a JSON string; else a
\* case-insensitive exact match of true/false gives a JSON boolean ("True "
\* with trailing space stays a string); else the string verbatim.
C17_CellTyping ==
    \A r \in WrittenRows : \A j \in Paired(r) :
        LastOfName(r, j) =>
            LET c == matrix[r][j]
                v == ValueOf(Objects[r - 1].members, matrix[1][j])
                u == parse_u64(c)
                i == parse_i64(c)
                f == parse_f64(c)
                low == to_lowercase(c)
            IN /\ IF c = <<>> THEN v = JString(<<>>)
                  ELSE IF u.ok THEN v = JNumber("u64", u.val)
                  ELSE IF i.ok THEN v = JNumber("i64", i.val)
                  ELSE IF f.ok /\ is_finite(f.val) THEN v = JNumber("f64", f.val)
                  ELSE IF f.ok THEN v = JString(c)
                  ELSE IF low = <<"t", "r", "u", "e">> THEN v = JBool(TRUE)
                  ELSE IF low = <<"f", "a", "l", "s", "e">> THEN v = JBool(FALSE)
                  ELSE v = JString(c)
               /\ c = U64Max => v = JNumber("u64", [neg |-> FALSE, digits |-> U64Max])
               /\ c = <<"0", "0", "1", "2", "3">> =>
                     v = JNumber("u64", [neg |-> FALSE, digits |-> <<"1", "2", "3">>])
               /\ c = <<"-", "1", "2", "3">> =>
                     v = JNumber("i64", [neg |-> TRUE, digits |-> <<"1", "2", "3">>])
               /\ c \in {<<"1", ".", "5">>, <<"1", ".", "2", "3", "e", "-", "4">>} => (v.j = "number" /\ v.kind = "f64")
               /\ c = <<"1", ".", "2", "3", "e", "9", "9", "9">> => v = JString(c)
               /\ c \in {<<"T", "R", "U", "E">>, <<"t", "r", "u", "e">>} => v = JBool(TRUE)
               /\ c \in {<<"F", "A", "L", "S", "E">>, <<"f", "a", "l", "s", "e">>} => v = JBool(FALSE)
               /\ c = <<"T", "r", "u", "e", " ">> => v = JString(c)
               /\ c = <<"h", "e", "l", "l", "o">> => v = JString(c)

C17_Witness ==
    /\ opc = "done"
    /\ format = "json"
    /\ matrix = <<<<<<"v">>>>, <<U64Max>>>>
    /\ Objects[1].members =
          <<[key |-> <<"v">>,
             value |-> JNumber("u64", [neg |-> FALSE, digits |-> U64Max])]>>

\* Permutations of 1..n and their application to a row
Perms(n) == {p \in [1..n -> 1..n] : \A a, b \in 1..n : p[a] = p[b] => a = b}
Permuted(s, p) == [i \in DOMAIN s |-> s[p[i]]]
KeysAscend(members) ==
    \A m \in DOMAIN members : m > 1 => StrLess(members[m - 1].key, members[m].key)
Distinct(s) == \A a, b \in DOMAIN s : s[a] = s[b] => a = b
SamePermuted(r) ==
    \A p \in Perms(Len(matrix[1])) :
        row_object(Permuted(matrix[1], p), Permuted(matrix[r], p)) = Objects[r - 1].members

\* C18 as stated: every object lists its keys in lexicographic order of column
\* name, independent of the column order in the header, so two matrices that
\* differ only by a permutation of columns (applied to header and rows alike)
\* produce identical output.
C18_PermutationInvariant ==
    \A r \in WrittenRows :
        /\ KeysAscend(Objects[r - 1].members)
        /\ Len(matrix[r]) = Len(matrix[1]) => SamePermuted(r)

\* C18 amended: every object lists its keys in lexicographic order of column
\* name, independent of the column order in the header; two matrices that
\* differ only by a permutation of columns produce identical output when the
\* column names are distinct.
C18_SortedKeysPermutationOfDistinct ==
    \A r \in WrittenRows :
        /\ KeysAscend(Objects[r - 1].members)
        /\ (Len(matrix[r]) = Len(matrix[1]) /\ Distinct(matrix[1])) => SamePermuted(r)

C18_Witness ==
    /\ opc = "done"
    /\ format = "json"
    /\ matrix = <<<<<<"b">>, <<"a">>>>, <<<<"1">>, <<"t", "e", "s", "t">>>>>>
    /\ Objects[1].members =
          <<[key |-> <<"a">>, value |-> JString(<<"t", "e", "s", "t">>)],
            [key |-> <<"b">>,
             value |-> JNumber("u64", [neg |-> FALSE, digits |-> <<"1">>])]>>

\* The pieces of k objects with a comma between every two
RECURSIVE Separated(_)
Separated(objects) ==
    IF objects = <<>> THEN <<>>
    ELSE IF Len(objects) = 1 THEN objects
    ELSE <<objects[1], Raw(",")>> \o Separated(Tail(objects))

\* C19: for write_header(cols), then k >= 0 calls of write_row, then finalize,
\* the JSON writer's output is exactly {"data":[ followed by the k row objects
\* in call order separated by single commas (no leading or trailing comma)
\* followed by ]}; with k = 0 the output is {"data":[]}; write_with_pretty
\* over an N-row matrix treats row 0 as the header and emits N-1 objects (an
\* empty matrix gives {"data":[]}).
C19_JsonFraming ==
    (opc = "done" /\ format = "json") =>
        LET n == Len(matrix)
            header == IF n = 0 THEN <<>> ELSE matrix[1]
            expected == [k \in 1..(IF n = 0 THEN 0 ELSE n - 1) |->
                            Object(row_object(header, matrix[k + 1]), pretty)]
        IN /\ jw.writer = <<Raw("{\"data\":[")>> \o Separated(expected) \o <<Raw("]}")>>
           /\ Len(Objects) = (IF n = 0 THEN 0 ELSE n - 1)
           /\ n <= 1 => jw.writer = <<Raw("{\"data\":["), Raw("]}")>>

C19_Witness ==
    /\ opc = "done"
    /\ format = "json"
    /\ matrix = <<<<<<"c", "o", "l", "1">>, <<"c", "o", "l", "2">>>>, <<<<"v", "a", "l", "1">>, <<"v", "a", "l", "2">>>>, <<<<"v", "a", "l", "3">>, <<"v", "a", "l", "4">>>>>>
    /\ Len(jw.writer) = 5
    /\ jw.writer[1] = Raw("{\"data\":[")
    /\ IsObject(jw.writer[2])
    /\ jw.writer[3] = Raw(",")
    /\ IsObject(jw.writer[4])
    /\ jw.writer[5] = Raw("]}")

\* A field as the claim has it written
Numeric(field) == parse_f64(field).ok \/ parse_i128(field).ok
Quoted(field) == <<"\"">> \o DoubleQuotes(field) \o <<"\"">>
RECURSIVE Delimited(_, _)
Delimited(fields, delimiter) ==
    IF fields = <<>> THEN <<>>
    ELSE IF Len(fields) = 1 THEN fields[1]
    ELSE fields[1] \o <<delimiter>> \o Delimited(Tail(fields), delimiter)
Special(field, delimiter) ==
    \E i \in DOMAIN field : field[i] \in {delimiter, "\"", "\r", "\n"}

C21_CsvHeaderUnquoted ==
    (opc = "done" /\ format = "csv" /\ sink.ok /\ matrix # <<>> /\ matrix[1] # <<>>) =>
        sink.out[1] = Delimited(matrix[1], ",") \o <<"\n">>

\* The header line csv::write does emit for C21's first matrix
C21_HeaderIsQuoted ==
    /\ opc = "done"
    /\ format = "csv"
    /\ matrix = <<<<<<"i", "d">>, <<"n", "a", "m", "e">>>>, <<<<"1">>, <<"t", "e", "s", "t">>>>>>
    /\ sink.out = <<<<"\"", "i", "d", "\"", ",", "\"", "n", "a", "m", "e", "\"", "\n">>, <<"1", ",", "\"", "t", "e", "s", "t", "\"", "\n">>>>

\* C30: each JSON row object is built by pairing columns with cells
\* positionally up to the shorter of the two and inserting into a map keyed
\* by column name: the object has one key per distinct column name among the
\* paired columns, and when two columns share a name the value of the later
\* column replaces the earlier, so the object can have fewer keys than the row
\* has cells.
C30_RowObjectPairing ==
    \A r \in WrittenRows :
        LET members == Objects[r - 1].members
            names == {matrix[1][j] : j \in Paired(r)}
        IN /\ {members[m].key : m \in DOMAIN members} = names
           /\ Len(members) = Cardinality(names)
           /\ Len(members) <= Len(matrix[r])
           /\ \A j \in Paired(r) :
                 LastOfName(r, j) =>
                     ValueOf(members, matrix[1][j]) = json_value(matrix[r][j])

C30_Witness ==
    /\ opc = "done"
    /\ format = "json"
    /\ matrix = <<<<<<"x">>, <<"x">>>>, <<<<"1">>, <<"t", "e", "s", "t">>>>>>
    /\ Objects[1].members = <<[key |-> <<"x">>, value |-> JString(<<"t", "e", "s", "t">>)]>>

\* ------------------------------------- claims on the order of the checks
\* from_cli_args has been called and has failed: no file changes afterwards
CfgFailed == cfg_result # Unset /\ ~cfg_result.ok
OtherSelectors == B2N(skip_hostname) + B2N(accept_invalid)

\* C25: in TlsConfig::from_cli_args the mutual-exclusion check comes before
\* the CA-file existence check: when ca_file names a nonexistent path and at
\* least one other selector is also set, the result is MutuallyExclusiveFlags,
\* never CaFileNotFound; CaFileNotFound is returned only when ca_file is the
\* sole selector.
C25_ExclusionBeforeExistence ==
    cfg_result # Unset =>
        /\ (ca_file.some /\ OtherSelectors > 0) =>
              (CfgFailed /\ cfg_result.err.kind = "MutuallyExclusiveFlags")
        /\ (CfgFailed /\ cfg_result.err.kind = "CaFileNotFound") =>
              /\ ca_file.some
              /\ OtherSelectors = 0
              /\ ~PathExists(fs[ca_file.val])

C25_Witness ==
    /\ CfgFailed
    /\ ca_file.some
    /\ ~PathExists(fs[ca_file.val])
    /\ OtherSelectors > 0
    /\ cfg_result.err.kind = "MutuallyExclusiveFlags"

\* create_tls_connection has returned
Connected == pc = "done" /\ ~CfgFailed
\* to_ssl_opts is called by create_tls_connection on this configuration
OptsCalled == tls_config.some /\ tls_config.val.enabled
InvalidUrl ==
    Err(connection_failed(<<"Invalid database URL format: ", "url error">>))

\* C27: in an ssl build, create_tls_connection validates in the order URL,
\* then TLS options, then connect: an unparseable database URL yields
\* ConnectionFailed ("Invalid database URL format") whatever TLS configuration
\* is supplied, a failing to_ssl_opts yields that TlsError unchanged, and in
\* both cases no connection pool is ever opened; a pool is opened only after
\* both steps succeeded.
C27_UrlThenOptionsThenConnect ==
    /\ pool_attempts > 0 =>
          /\ Connected
          /\ url_ok
          /\ OptsCalled => to_ssl_opts(tls_config.val, fs).ok
    /\ Connected =>
          /\ ~url_ok => (conn_result = InvalidUrl /\ pool_attempts = 0)
          /\ (url_ok /\ OptsCalled /\ ~to_ssl_opts(tls_config.val, fs).ok) =>
                /\ conn_result = Err(to_ssl_opts(tls_config.val, fs).err)
                /\ pool_attempts = 0
          /\ (url_ok /\ (OptsCalled => to_ssl_opts(tls_config.val, fs).ok)) =>
                pool_attempts = 1

C27_Witness ==
    /\ Connected
    /\ ~url_ok
    /\ OptsCalled
    /\ ~to_ssl_opts(tls_config.val, fs).ok
    /\ conn_result = InvalidUrl
    /\ pool_attempts = 0

\* C29: the orchestrator builds a TlsConfig if and only if at least one of the
\* three TLS selectors is set; when none is set it passes None to
\* create_tls_connection, which then applies no SslOpts to the connection
\* options, so the enabled Platform configuration is never produced on the CLI
\* path.
C29_ConfigIffSelector ==
    (entry = "cli" /\ pc # "start") =>
        /\ Called <=> SetCount >= 1
        /\ SetCount = 0 => (tls_config = None /\ applied_opts = None)
        /\ tls_config # Some(TlsConfig(TRUE, Platform))
        /\ (Called /\ cfg_result.ok) => cfg_result.val # TlsConfig(TRUE, Platform)

C29_Witness ==
    /\ entry = "cli"
    /\ pc = "done"
    /\ SetCount = 0
    /\ ~Called
    /\ tls_config = None
    /\ applied_opts = None
    /\ pool_attempts = 1
    /\ conn_result = Ok("Pool")

\* ------------------------------------------- the build without the ssl feature
\* TlsError::feature_not_enabled
feature_not_enabled == TlsErrorRec("FeatureNotEnabled")

\* TlsConfig::to_ssl_opts (not ssl)
to_ssl_opts_no_ssl(config) ==
    IF config.enabled THEN Err(feature_not_enabled) ELSE Ok(None)

\* to_string of the TlsErrors create_tls_connection (not ssl) returns: the
\* pieces of the #[error] text
to_string(err) ==
    CASE err.kind = "FeatureNotEnabled" ->
            <<"TLS feature not enabled",
              ". Recompile with --features ssl to enable TLS support">>
      [] err.kind = "ConnectionFailed" -> <<"TLS connection failed: ">> \o err.message

\* Callers of the library: from_cli_args or a constructor, or no configuration
NoSslInit == Init /\ entry \in {"lib", "api"}

\* A direct call of TlsConfig::to_ssl_opts (not ssl)
NoSslToSslOpts ==
    /\ pc = "config"
    /\ tls_config.some
    /\ ssl_result' = to_ssl_opts_no_ssl(tls_config.val)
    /\ pc' = "opts"
    /\ UNCHANGED <<entry, ca_file, skip_hostname, accept_invalid, verbose, quiet,
                   url_ok, fs, fs_changes, cfg_result, tls_config, stderr,
                   applied_opts, pool_attempts, conn_result, feature_verbose, cert,
                   verify_result>>
    /\ UNCHANGED <<errVars, outVars>>

\* create_tls_connection (not ssl), with the configuration built before or,
\* for a caller that built none, with None
NoSslCreateTlsConnection ==
    /\ \/ pc \in {"config", "opts"}
       \/ pc = "start" /\ entry = "api"
    /\ pc' = "done"
    /\ IF tls_config.some /\ tls_config.val.enabled
       THEN /\ conn_result' = Err(feature_not_enabled)
            /\ UNCHANGED pool_attempts
       ELSE /\ pool_attempts' = pool_attempts + 1
            /\ \/ url_ok /\ conn_result' = Ok("Pool")
               \/ conn_result' =
                     Err(connection_failed(
                            <<"Database connection failed: ",
                              IF url_ok THEN "mysql error" ELSE "url error">>))
    /\ UNCHANGED <<entry, ca_file, skip_hostname, accept_invalid, verbose, quiet,
                   url_ok, fs, fs_changes, cfg_result, tls_config, ssl_result, stderr,
                   applied_opts, feature_verbose, cert, verify_result>>
    /\ UNCHANGED <<errVars, outVars>>

NoSslNext ==
    \/ LibFromCliArgs
    \/ LibConstruct
    \/ NoSslToSslOpts
    \/ NoSslCreateTlsConnection

NoSslSpec == NoSslInit /\ [][NoSslNext]_vars

\* C24: in a build without the ssl feature, create_tls_connection returns an
\* error whose message contains "TLS feature not enabled", both when it is
\* given an enabled TlsConfig and when it is given no TLS configuration
\* (None); and to_ssl_opts returns FeatureNotEnabled for an enabled config and
\* Ok(None) for a disabled one.
C24_NoSslFeatureNotEnabled ==
    /\ (Connected /\ (~tls_config.some \/ tls_config.val.enabled)) =>
          /\ ~conn_result.ok
          /\ Contains(to_string(conn_result.err), "TLS feature not enabled")
    /\ ssl_result # Unset =>
          ssl_result = (IF tls_config.val.enabled
                        THEN Err(feature_not_enabled)
                        ELSE Ok(None))

\* The part of C24 the code has: an enabled configuration is refused, and
\* to_ssl_opts answers as stated.
C24_EnabledConfigRefused ==
    /\ (Connected /\ tls_config.some /\ tls_config.val.enabled) =>
          /\ conn_result = Err(feature_not_enabled)
          /\ Contains(to_string(conn_result.err), "TLS feature not enabled")
          /\ pool_attempts = 0
    /\ ssl_result # Unset =>
          ssl_result = (IF tls_config.val.enabled
                        THEN Err(feature_not_enabled)
                        ELSE Ok(None))

\* Without a configuration the pool is opened
C24_NoConfigConnects ==
    /\ Connected
    /\ tls_config = None
    /\ pool_attempts = 1
    /\ conn_result = Ok("Pool")

\* ------------------------------------------------------------ exit codes
EXIT_SUCCESS == 0
EXIT_NO_ROWS == 1
EXIT_CONFIG_ERROR == 2
EXIT_DB_AUTH_ERROR == 3
EXIT_QUERY_ERROR == 4
EXIT_IO_ERROR == 5

\* str::contains on strings given character by character
contains(s, needle) ==
    \E i \in 0..(Len(s) - Len(needle)) : SubSeq(s, i + 1, i + Len(needle)) = needle

\* map_error_to_exit_code without the test for mysql with auth or connect
map_error_to_exit_code_keywords_only(text) ==
    LET error_string == to_lowercase(text)
        has(w) == contains(error_string, w)
    IN  IF has(<<"n", "o", " ", "r", "e", "c", "o", "r", "d", "s", " ", "f", "o", "u", "n", "d">>) \/ has(<<"n", "o", " ", "r", "o", "w", "s">>)
        THEN EXIT_NO_ROWS
        ELSE IF \/ has(<<"m", "i", "s", "s", "i", "n", "g">>)
                \/ has(<<"i", "n", "v", "a", "l", "i", "d">>)
                \/ has(<<"c", "o", "n", "f", "i", "g", "u", "r", "a", "t", "i", "o", "n">>)
                \/ has(<<"m", "u", "t", "u", "a", "l", "l", "y", " ", "e", "x", "c", "l", "u", "s", "i", "v", "e">>)
        THEN EXIT_CONFIG_ERROR
        ELSE IF \/ has(<<"a", "c", "c", "e", "s", "s", " ", "d", "e", "n", "i", "e", "d">>)
                \/ has(<<"a", "u", "t", "h", "e", "n", "t", "i", "c", "a", "t", "i", "o", "n">>)
                \/ has(<<"c", "o", "n", "n", "e", "c", "t", "i", "o", "n">>)
        THEN EXIT_DB_AUTH_ERROR
        ELSE IF \/ has(<<"q", "u", "e", "r", "y">>)
                \/ has(<<"s", "q", "l">>)
                \/ has(<<"s", "y", "n", "t", "a", "x">>)
                \/ has(<<"t", "y", "p", "e", " ", "c", "o", "n", "v", "e", "r", "s", "i", "o", "n">>)
                \/ has(<<"f", "r", "o", "m", "_", "v", "a", "l", "u", "e">>)
        THEN EXIT_QUERY_ERROR
        ELSE IF \/ has(<<"f", "i", "l", "e">>)
                \/ has(<<"i", "o">>)
                \/ has(<<"r", "e", "a", "d">>)
                \/ has(<<"w", "r", "i", "t", "e">>)
                \/ has(<<"p", "e", "r", "m", "i", "s", "s", "i", "o", "n">>)
        THEN EXIT_IO_ERROR
        ELSE EXIT_QUERY_ERROR

\* map_error_to_exit_code, on error.to_string()
map_error_to_exit_code(text) ==
    LET error_string == to_lowercase(text)
        has(w) == contains(error_string, w)
    IN  IF has(<<"n", "o", " ", "r", "e", "c", "o", "r", "d", "s", " ", "f", "o", "u", "n", "d">>) \/ has(<<"n", "o", " ", "r", "o", "w", "s">>)
        THEN EXIT_NO_ROWS
        ELSE IF \/ has(<<"m", "i", "s", "s", "i", "n", "g">>)
                \/ has(<<"i", "n", "v", "a", "l", "i", "d">>)
                \/ has(<<"c", "o", "n", "f", "i", "g", "u", "r", "a", "t", "i", "o", "n">>)
                \/ has(<<"m", "u", "t", "u", "a", "l", "l", "y", " ", "e", "x", "c", "l", "u", "s", "i", "v", "e">>)
        THEN EXIT_CONFIG_ERROR
        ELSE IF \/ has(<<"a", "c", "c", "e", "s", "s", " ", "d", "e", "n", "i", "e", "d">>)
                \/ has(<<"a", "u", "t", "h", "e", "n", "t", "i", "c", "a", "t", "i", "o", "n">>)
                \/ has(<<"c", "o", "n", "n", "e", "c", "t", "i", "o", "n">>)
                \/ (has(<<"m", "y", "s", "q", "l">>) /\ (has(<<"a", "u", "t", "h">>) \/ has(<<"c", "o", "n", "n", "e", "c", "t">>)))
        THEN EXIT_DB_AUTH_ERROR
        ELSE IF \/ has(<<"q", "u", "e", "r", "y">>)
                \/ has(<<"s", "q", "l">>)
                \/ has(<<"s", "y", "n", "t", "a", "x">>)
                \/ has(<<"t", "y", "p", "e", " ", "c", "o", "n", "v", "e", "r", "s", "i", "o", "n">>)
                \/ has(<<"f", "r", "o", "m", "_", "v", "a", "l", "u", "e">>)
        THEN EXIT_QUERY_ERROR
        ELSE IF \/ has(<<"f", "i", "l", "e">>)
                \/ has(<<"i", "o">>)
                \/ has(<<"r", "e", "a", "d">>)
                \/ has(<<"w", "r", "i", "t", "e">>)
                \/ has(<<"p", "e", "r", "m", "i", "s", "s", "i", "o", "n">>)
        THEN EXIT_IO_ERROR
        ELSE EXIT_QUERY_ERROR

\* The messages of test_map_error_to_exit_code_no_rows
NoRowsMessages ==
    {<<"N", "o", " ", "r", "e", "c", "o", "r", "d", "s", " ", "f", "o", "u", "n", "d", " ", "i", "n", " ", "d", "a", "t", "a", "b", "a", "s", "e">>,
     <<"Q", "u", "e", "r", "y", " ", "r", "e", "t", "u", "r", "n", "e", "d", " ", "n", "o", " ", "r", "o", "w", "s">>}
\* The messages of test_map_error_to_exit_code_config, and of a missing
\* database URL
ConfigMessages ==
    {<<"M", "i", "s", "s", "i", "n", "g", " ", "d", "a", "t", "a", "b", "a", "s", "e", " ", "U", "R", "L">>,
     <<"I", "n", "v", "a", "l", "i", "d", " ", "c", "o", "n", "f", "i", "g", "u", "r", "a", "t", "i", "o", "n">>,
     <<"M", "u", "t", "u", "a", "l", "l", "y", " ", "e", "x", "c", "l", "u", "s", "i", "v", "e", " ", "f", "l", "a", "g", "s">>,
     <<"M", "i", "s", "s", "i", "n", "g", " ", "d", "a", "t", "a", "b", "a", "s", "e", " ", "U", "R", "L", ".", " ", "P", "r", "o", "v", "i", "d", "e", " ", "-", "-", "d", "b", "-", "u", "r", "l", " ", "o", "r", " ", "s", "e", "t", " ", "D", "A", "T", "A", "B", "A", "S", "E", "_", "U", "R", "L", " ", "e", "n", "v", "i", "r", "o", "n", "m", "e", "n", "t", " ", "v", "a", "r", "i", "a", "b", "l", "e">>}
\* The authentication messages of test_map_error_to_exit_code_db_auth
AuthMessages ==
    {<<"A", "c", "c", "e", "s", "s", " ", "d", "e", "n", "i", "e", "d", " ", "f", "o", "r", " ", "u", "s", "e", "r">>,
     <<"A", "u", "t", "h", "e", "n", "t", "i", "c", "a", "t", "i", "o", "n", " ", "f", "a", "i", "l", "e", "d">>,
     <<"M", "y", "S", "Q", "L", " ", "a", "u", "t", "h", "e", "n", "t", "i", "c", "a", "t", "i", "o", "n", " ", "e", "r", "r", "o", "r">>}
\* The connection message of test_map_error_to_exit_code_db_auth
ConnectionMessages ==
    {<<"C", "o", "n", "n", "e", "c", "t", "i", "o", "n", " ", "r", "e", "f", "u", "s", "e", "d">>}
\* The messages of test_map_error_to_exit_code_query
QueryMessages ==
    {<<"Q", "u", "e", "r", "y", " ", "e", "x", "e", "c", "u", "t", "i", "o", "n", " ", "f", "a", "i", "l", "e", "d">>,
     <<"S", "Q", "L", " ", "s", "y", "n", "t", "a", "x", " ", "e", "r", "r", "o", "r">>,
     <<"T", "y", "p", "e", " ", "c", "o", "n", "v", "e", "r", "s", "i", "o", "n", " ", "e", "r", "r", "o", "r">>,
     <<"f", "r", "o", "m", "_", "v", "a", "l", "u", "e", " ", "e", "r", "r", "o", "r">>}
\* The messages of test_map_error_to_exit_code_io
IoMessages ==
    {<<"F", "i", "l", "e", " ", "n", "o", "t", " ", "f", "o", "u", "n", "d">>,
     <<"I", "O", " ", "e", "r", "r", "o", "r", " ", "o", "c", "c", "u", "r", "r", "e", "d">>,
     <<"P", "e", "r", "m", "i", "s", "s", "i", "o", "n", " ", "d", "e", "n", "i", "e", "d">>,
     <<"F", "a", "i", "l", "e", "d", " ", "t", "o", " ", "r", "e", "a", "d", " ", "f", "i", "l", "e">>,
     <<"F", "a", "i", "l", "e", "d", " ", "t", "o", " ", "w", "r", "i", "t", "e", " ", "f", "i", "l", "e">>}
\* The message of test_map_error_to_exit_code_default
DefaultMessages ==
    {<<"U", "n", "k", "n", "o", "w", "n", " ", "e", "r", "r", "o", "r", " ", "o", "c", "c", "u", "r", "r", "e", "d">>}
\* Messages the orchestrator builds, and other texts
MainMessages ==
    {<<"M", "i", "s", "s", "i", "n", "g", " ", "d", "a", "t", "a", "b", "a", "s", "e", " ", "q", "u", "e", "r", "y", ".", " ", "P", "r", "o", "v", "i", "d", "e", " ", "-", "-", "q", "u", "e", "r", "y", ",", " ", "-", "-", "q", "u", "e", "r", "y", "-", "f", "i", "l", "e", ",", " ", "o", "r", " ", "s", "e", "t", " ", "D", "A", "T", "A", "B", "A", "S", "E", "_", "Q", "U", "E", "R", "Y", " ", "e", "n", "v", "i", "r", "o", "n", "m", "e", "n", "t", " ", "v", "a", "r", "i", "a", "b", "l", "e">>,
     <<"M", "i", "s", "s", "i", "n", "g", " ", "o", "u", "t", "p", "u", "t", " ", "f", "i", "l", "e", ".", " ", "P", "r", "o", "v", "i", "d", "e", " ", "-", "-", "o", "u", "t", "p", "u", "t", " ", "o", "r", " ", "s", "e", "t", " ", "O", "U", "T", "P", "U", "T", "_", "F", "I", "L", "E", " ", "e", "n", "v", "i", "r", "o", "n", "m", "e", "n", "t", " ", "v", "a", "r", "i", "a", "b", "l", "e">>,
     <<"F", "a", "i", "l", "e", "d", " ", "t", "o", " ", "r", "e", "a", "d", " ", "q", "u", "e", "r", "y", " ", "f", "i", "l", "e", " ", "q", ".", "s", "q", "l", ":", " ", "N", "o", " ", "s", "u", "c", "h", " ", "f", "i", "l", "e", " ", "o", "r", " ", "d", "i", "r", "e", "c", "t", "o", "r", "y", " ", "(", "o", "s", " ", "e", "r", "r", "o", "r", " ", "2", ")">>,
     <<"D", "a", "t", "a", "b", "a", "s", "e", " ", "c", "o", "n", "n", "e", "c", "t", "i", "o", "n", " ", "p", "o", "o", "l", " ", "c", "r", "e", "a", "t", "i", "o", "n", " ", "f", "a", "i", "l", "e", "d", ":", " ", "T", "L", "S", " ", "c", "o", "n", "f", "i", "g", "u", "r", "a", "t", "i", "o", "n", " ", "e", "r", "r", "o", "r", ":", " ", "M", "u", "t", "u", "a", "l", "l", "y", " ", "e", "x", "c", "l", "u", "s", "i", "v", "e", " ", "T", "L", "S", " ", "f", "l", "a", "g", "s", " ", "p", "r", "o", "v", "i", "d", "e", "d", ":", " ", "-", "-", "t", "l", "s", "-", "c", "a", "-", "f", "i", "l", "e", ",", " ", "-", "-", "a", "l", "l", "o", "w", "-", "i", "n", "v", "a", "l", "i", "d", "-", "c", "e", "r", "t", "i", "f", "i", "c", "a", "t", "e">>,
     <<"D", "a", "t", "a", "b", "a", "s", "e", " ", "c", "o", "n", "n", "e", "c", "t", "i", "o", "n", " ", "p", "o", "o", "l", " ", "c", "r", "e", "a", "t", "i", "o", "n", " ", "f", "a", "i", "l", "e", "d", ":", " ", "D", "a", "t", "a", "b", "a", "s", "e", " ", "c", "o", "n", "n", "e", "c", "t", "i", "o", "n", " ", "f", "a", "i", "l", "e", "d", ":", " ", "T", "L", "S", " ", "c", "o", "n", "n", "e", "c", "t", "i", "o", "n", " ", "f", "a", "i", "l", "e", "d", ":", " ", "C", "o", "n", "n", "e", "c", "t", "i", "o", "n", " ", "r", "e", "f", "u", "s", "e", "d">>,
     <<"D", "a", "t", "a", "b", "a", "s", "e", " ", "c", "o", "n", "n", "e", "c", "t", "i", "o", "n", " ", "p", "o", "o", "l", " ", "c", "r", "e", "a", "t", "i", "o", "n", " ", "f", "a", "i", "l", "e", "d", ":", " ", "D", "a", "t", "a", "b", "a", "s", "e", " ", "c", "o", "n", "n", "e", "c", "t", "i", "o", "n", " ", "f", "a", "i", "l", "e", "d", ":", " ", "T", "L", "S", " ", "c", "o", "n", "n", "e", "c", "t", "i", "o", "n", " ", "f", "a", "i", "l", "e", "d", ":", " ", "I", "n", "v", "a", "l", "i", "d", " ", "d", "a", "t", "a", "b", "a", "s", "e", " ", "U", "R", "L", " ", "f", "o", "r", "m", "a", "t", ":", " ", "u", "r", "l", " ", "e", "r", "r", "o", "r">>,
     <<"D", "a", "t", "a", "b", "a", "s", "e", " ", "c", "o", "n", "n", "e", "c", "t", "i", "o", "n", " ", "f", "a", "i", "l", "e", "d", ":", " ", "A", "c", "c", "e", "s", "s", " ", "d", "e", "n", "i", "e", "d", " ", "f", "o", "r", " ", "u", "s", "e", "r">>,
     <<"S", "Q", "L", " ", "s", "y", "n", "t", "a", "x", " ", "e", "r", "r", "o", "r", " ", "i", "n", " ", "q", "u", "e", "r", "y">>,
     <<"T", "a", "b", "l", "e", " ", "d", "o", "e", "s", " ", "n", "o", "t", " ", "e", "x", "i", "s", "t">>,
     <<"C", "o", "l", "u", "m", "n", " ", "d", "o", "e", "s", " ", "n", "o", "t", " ", "e", "x", "i", "s", "t", " ", "o", "r", " ", "i", "s", " ", "a", "m", "b", "i", "g", "u", "o", "u", "s">>,
     <<"A", "c", "c", "e", "s", "s", " ", "d", "e", "n", "i", "e", "d", " ", "-", " ", "i", "n", "v", "a", "l", "i", "d", " ", "c", "r", "e", "d", "e", "n", "t", "i", "a", "l", "s">>,
     <<"A", "c", "c", "e", "s", "s", " ", "d", "e", "n", "i", "e", "d", " ", "t", "o", " ", "d", "a", "t", "a", "b", "a", "s", "e">>,
     <<"I", "n", "s", "u", "f", "f", "i", "c", "i", "e", "n", "t", " ", "p", "r", "i", "v", "i", "l", "e", "g", "e", "s", " ", "f", "o", "r", " ", "q", "u", "e", "r", "y", " ", "e", "x", "e", "c", "u", "t", "i", "o", "n">>,
     <<"I", "n", "s", "u", "f", "f", "i", "c", "i", "e", "n", "t", " ", "c", "o", "l", "u", "m", "n", " ", "p", "r", "i", "v", "i", "l", "e", "g", "e", "s">>,
     <<"U", "n", "k", "n", "o", "w", "n", " ", "d", "a", "t", "a", "b", "a", "s", "e">>,
     <<"C", "o", "n", "n", "e", "c", "t", "i", "o", "n", " ", "f", "a", "i", "l", "e", "d", " ", "-", " ", "s", "e", "r", "v", "e", "r", " ", "n", "o", "t", " ", "r", "e", "a", "c", "h", "a", "b", "l", "e">>,
     <<"C", "o", "n", "n", "e", "c", "t", "i", "o", "n", " ", "f", "a", "i", "l", "e", "d", " ", "-", " ", "s", "e", "r", "v", "e", "r", " ", "n", "o", "t", " ", "r", "e", "s", "p", "o", "n", "d", "i", "n", "g">>,
     <<"C", "o", "n", "n", "e", "c", "t", "i", "o", "n", " ", "l", "o", "s", "t", " ", "-", " ", "s", "e", "r", "v", "e", "r", " ", "h", "a", "s", " ", "g", "o", "n", "e", " ", "a", "w", "a", "y">>,
     <<"C", "o", "n", "n", "e", "c", "t", "i", "o", "n", " ", "l", "o", "s", "t", " ", "d", "u", "r", "i", "n", "g", " ", "q", "u", "e", "r", "y">>,
     <<"N", "e", "t", "w", "o", "r", "k", " ", "I", "/", "O", " ", "e", "r", "r", "o", "r", " ", "d", "u", "r", "i", "n", "g", " ", "q", "u", "e", "r", "y", " ", "e", "x", "e", "c", "u", "t", "i", "o", "n">>,
     <<"I", "n", "v", "a", "l", "i", "d", " ", "d", "a", "t", "a", "b", "a", "s", "e", " ", "U", "R", "L", " ", "f", "o", "r", "m", "a", "t">>,
     <<"D", "a", "t", "a", "b", "a", "s", "e", " ", "d", "r", "i", "v", "e", "r", " ", "e", "r", "r", "o", "r">>,
     <<"F", "a", "i", "l", "e", "d", " ", "t", "o", " ", "c", "r", "e", "a", "t", "e", " ", "o", "u", "t", "p", "u", "t", " ", "f", "i", "l", "e", ":", " ", "P", "e", "r", "m", "i", "s", "s", "i", "o", "n", " ", "d", "e", "n", "i", "e", "d", " ", "(", "o", "s", " ", "e", "r", "r", "o", "r", " ", "1", "3", ")">>,
     <<"C", "a", "n", "n", "o", "t", " ", "c", "o", "n", "n", "e", "c", "t", " ", "t", "o", " ", "M", "y", "S", "Q", "L", " ", "s", "e", "r", "v", "e", "r">>,
     <<"M", "y", "S", "Q", "L", " ", "a", "u", "t", "h", " ", "f", "a", "i", "l", "u", "r", "e">>,
     <<"A", "C", "C", "E", "S", "S", " ", "D", "E", "N", "I", "E", "D", " ", "F", "O", "R", " ", "U", "S", "E", "R">>,
     <<"N", "O", " ", "R", "O", "W", "S">>,
     <<>>}

Messages ==
    NoRowsMessages \cup ConfigMessages \cup AuthMessages \cup ConnectionMessages
    \cup QueryMessages \cup IoMessages \cup DefaultMessages \cup MainMessages

Contexts == {None, Some("Database query failed"), Some("Output writing failed")}

ExitInit ==
    /\ TlsIdle
    /\ ErrIdle
    /\ ValIdle
    /\ PipeIdle
    /\ IoIdle
    /\ MainIdle
    /\ xpc = "start"
    /\ error_msg \in Messages
    /\ context \in Contexts
    /\ exit_stderr = <<>>
    /\ exit_code = -1

\* exit_with_error: map the error, log it, exit
ExitWithError ==
    /\ xpc = "start"
    /\ exit_code' = map_error_to_exit_code(error_msg)
    /\ exit_stderr' = IF context.some
                      THEN <<context.val, ": ", error_msg>>
                      ELSE <<error_msg>>
    /\ xpc' = "exited"
    /\ UNCHANGED <<error_msg, context>>
    /\ UNCHANGED <<tlsVars, errVars, valVars, pipeVars, ioVars, mainVars>>

ExitNext == ExitWithError

ExitSpec == ExitInit /\ [][ExitNext]_vars

\* ------------------------------------------------- claims on the exit codes
MsgHas(w) == contains(to_lowercase(error_msg), w)
MatchesNoRows == MsgHas(<<"n", "o", " ", "r", "e", "c", "o", "r", "d", "s", " ", "f", "o", "u", "n", "d">>) \/ MsgHas(<<"n", "o", " ", "r", "o", "w", "s">>)
MatchesConfig ==
    \/ MsgHas(<<"m", "i", "s", "s", "i", "n", "g">>)
    \/ MsgHas(<<"i", "n", "v", "a", "l", "i", "d">>)
    \/ MsgHas(<<"c", "o", "n", "f", "i", "g", "u", "r", "a", "t", "i", "o", "n">>)
    \/ MsgHas(<<"m", "u", "t", "u", "a", "l", "l", "y", " ", "e", "x", "c", "l", "u", "s", "i", "v", "e">>)
MatchesAuthListed ==
    \/ MsgHas(<<"a", "c", "c", "e", "s", "s", " ", "d", "e", "n", "i", "e", "d">>)
    \/ MsgHas(<<"a", "u", "t", "h", "e", "n", "t", "i", "c", "a", "t", "i", "o", "n">>)
    \/ MsgHas(<<"c", "o", "n", "n", "e", "c", "t", "i", "o", "n">>)
MatchesAuthMysql ==
    MsgHas(<<"m", "y", "s", "q", "l">>) /\ (MsgHas(<<"a", "u", "t", "h">>) \/ MsgHas(<<"c", "o", "n", "n", "e", "c", "t">>))
MatchesQuery ==
    \/ MsgHas(<<"q", "u", "e", "r", "y">>)
    \/ MsgHas(<<"s", "q", "l">>)
    \/ MsgHas(<<"s", "y", "n", "t", "a", "x">>)
    \/ MsgHas(<<"t", "y", "p", "e", " ", "c", "o", "n", "v", "e", "r", "s", "i", "o", "n">>)
    \/ MsgHas(<<"f", "r", "o", "m", "_", "v", "a", "l", "u", "e">>)
MatchesIo ==
    \/ MsgHas(<<"f", "i", "l", "e">>)
    \/ MsgHas(<<"i", "o">>)
    \/ MsgHas(<<"r", "e", "a", "d">>)
    \/ MsgHas(<<"w", "r", "i", "t", "e">>)
    \/ MsgHas(<<"p", "e", "r", "m", "i", "s", "s", "i", "o", "n">>)
FirstMatch(auth) ==
    IF MatchesNoRows THEN 1
    ELSE IF MatchesConfig THEN 2
    ELSE IF auth THEN 3
    ELSE IF MatchesQuery THEN 4
    ELSE IF MatchesIo THEN 5
    ELSE 4
\* The codes the unit tests assert
AsTested ==
    /\ error_msg \in NoRowsMessages => exit_code = 1
    /\ error_msg \in ConfigMessages => exit_code = 2
    /\ error_msg \in AuthMessages \cup ConnectionMessages => exit_code = 3
    /\ error_msg \in QueryMessages \cup DefaultMessages => exit_code = 4
    /\ error_msg \in IoMessages => exit_code = 5

\* C26 as stated: map_error_to_exit_code checks the message categories in a
\* fixed precedence and returns the first match: no-rows messages give 1, then
\* missing/invalid/configuration/mutually-exclusive give 2, then
\* access-denied/authentication/connection give 3, then
\* query/sql/syntax/type-conversion/from_value give 4, then
\* file/io/read/write/permission give 5, and a message matching none gives 4;
\* every message used in the unit tests maps to the code asserted there.
C26_FixedPrecedence ==
    xpc = "exited" => (exit_code = FirstMatch(MatchesAuthListed) /\ AsTested)

\* C26 amended: the same precedence, where the third step also takes a
\* message that contains mysql together with auth or connect.
C26_FixedPrecedenceWithMysql ==
    xpc = "exited" =>
        (exit_code = FirstMatch(MatchesAuthListed \/ MatchesAuthMysql) /\ AsTested)

C26_Witness ==
    /\ xpc = "exited"
    /\ error_msg = <<"C", "o", "n", "n", "e", "c", "t", "i", "o", "n", " ", "l", "o", "s", "t", " ", "d", "u", "r", "i", "n", "g", " ", "q", "u", "e", "r", "y">>
    /\ MatchesAuthListed
    /\ MatchesQuery
    /\ exit_code = 3

\* The class of error a message reports
ErrorClass(text) ==
    CASE text \in ConfigMessages -> "configuration"
      [] text \in ConnectionMessages -> "connection"
      [] text \in AuthMessages -> "authentication"
      [] text \in NoRowsMessages -> "no data"
      [] OTHER -> "other"
FourClasses == {"configuration", "connection", "authentication", "no data"}

\* C23: the process exit code distinguishes the error classes: a
\* configuration error, a runtime connection error, an authentication error
\* and a no-data condition each map to a different exit code, so no two of
\* these four classes share a code.
C23_ClassesHaveDistinctCodes ==
    (xpc = "exited" /\ ErrorClass(error_msg) \in FourClasses) =>
        \A other \in Messages :
            (ErrorClass(other) \in FourClasses /\ ErrorClass(other) # ErrorClass(error_msg))
                => map_error_to_exit_code(other) # exit_code

\* A connection error has left with the code of an authentication error
C23_ConnectionSharesAuthCode ==
    /\ xpc = "exited"
    /\ error_msg = <<"C", "o", "n", "n", "e", "c", "t", "i", "o", "n", " ", "r", "e", "f", "u", "s", "e", "d">>
    /\ exit_code = EXIT_DB_AUTH_ERROR
    /\ map_error_to_exit_code(<<"A", "c", "c", "e", "s", "s", " ", "d", "e", "n", "i", "e", "d", " ", "f", "o", "r", " ", "u", "s", "e", "r">>) = exit_code

\* ------------------------------------------------ the writers on a failing sink
\* One operation (write_all or flush) on the sink. The sink fails from its
\* operation number fail_at on (never when fail_at = 0); a write that succeeds
\* delivers its units.
sink_op(out, units) ==
    LET n == out.ops + 1
        fails == out.fail_at # 0 /\ n >= out.fail_at
    IN [ok |-> ~fails,
        out |-> [out EXCEPT !.ops = n,
                            !.failed = @ \/ fails,
                            !.delivered = IF fails THEN @ ELSE @ + units]]

\* csv::Writer::flush_buf: write_all of what the buffer holds (no write call
\* for an empty buffer)
flush_buf(w, out) ==
    IF w.buffered = 0
    THEN [ok |-> TRUE, wtr |-> w, out |-> out]
    ELSE LET r == sink_op(out, w.buffered) IN
         [ok |-> r.ok,
          wtr |-> IF r.ok THEN [w EXCEPT !.buffered = 0] ELSE w,
          out |-> r.out]

\* csv::Writer::write_record: the record goes to the buffer, which is written
\* out first when it is full
io_write_record(w, out) ==
    IF w.buffered + 1 > w.capacity
    THEN LET r == flush_buf(w, out) IN
         [ok |-> r.ok,
          wtr |-> IF r.ok THEN [r.wtr EXCEPT !.buffered = 1] ELSE r.wtr,
          out |-> r.out]
    ELSE [ok |-> TRUE, wtr |-> [w EXCEPT !.buffered = @ + 1], out |-> out]

\* csv::Writer::flush: flush_buf, then flush of the sink
io_flush(w, out) ==
    LET r == flush_buf(w, out) IN
    IF ~r.ok THEN r
    ELSE LET f == sink_op(r.out, 0) IN [ok |-> f.ok, wtr |-> r.wtr, out |-> f.out]

\* Drop for csv::Writer: flush, with its result ignored
io_drop(w, out) == [io_flush(w, out) EXCEPT !.ok = TRUE]

\* Drop for csv::Writer leaving the buffer unwritten
io_drop_no_flush(w, out) == [ok |-> TRUE, wtr |-> w, out |-> out]

\* The writers' own writes on the sink fail from operation 1, 2, ..., or never
FailPoints == 0..(2 * MaxRows + 2)
Capacities == {1, 2}

IoInit ==
    /\ TlsIdle
    /\ ErrIdle
    /\ ValIdle
    /\ PipeIdle
    /\ ExitIdle
    /\ MainIdle
    /\ wpc = "start"
    /\ io_format \in {"csv", "tab", "json"}
    /\ io_rows \in 0..MaxRows
    /\ written = 0
    /\ \E c \in Capacities : wtr = [capacity |-> c, buffered |-> 0]
    /\ \E f \in FailPoints :
          output = [fail_at |-> f, ops |-> 0, failed |-> FALSE, delivered |-> 0]
    /\ io_result = Unset

IoUnchanged == UNCHANGED <<tlsVars, errVars, valVars, pipeVars, exitVars, mainVars>>

\* csv::write and tab::write: wtr.write_record(row)? for the next row; an error
\* returns, and the writer is dropped
IoWriteRecord ==
    /\ wpc = "start"
    /\ io_format \in {"csv", "tab"}
    /\ written < io_rows
    /\ LET r == io_write_record(wtr, output) IN
       IF r.ok
       THEN /\ wtr' = r.wtr
            /\ output' = r.out
            /\ written' = written + 1
            /\ UNCHANGED <<wpc, io_result>>
       ELSE LET d == io_drop(r.wtr, r.out) IN
            /\ wtr' = d.wtr
            /\ output' = d.out
            /\ io_result' = Err("io")
            /\ wpc' = "done"
            /\ UNCHANGED written
    /\ UNCHANGED <<io_format, io_rows>>
    /\ IoUnchanged

\* csv::write after the last row: Ok(()), and the writer is dropped
IoCsvReturn ==
    /\ wpc = "start"
    /\ io_format = "csv"
    /\ written = io_rows
    /\ LET d == io_drop(wtr, output) IN
       /\ wtr' = d.wtr
       /\ output' = d.out
    /\ io_result' = Ok("unit")
    /\ wpc' = "done"
    /\ UNCHANGED <<io_format, io_rows, written>>
    /\ IoUnchanged

\* tab::write after the last row: wtr.flush()?, Ok(()), and the writer is dropped
IoTabFlush ==
    /\ wpc = "start"
    /\ io_format = "tab"
    /\ written = io_rows
    /\ LET f == io_flush(wtr, output)
           d == io_drop(f.wtr, f.out)
       IN /\ wtr' = d.wtr
          /\ output' = d.out
          /\ io_result' = IF f.ok THEN Ok("unit") ELSE Err("io")
    /\ wpc' = "done"
    /\ UNCHANGED <<io_format, io_rows, written>>
    /\ IoUnchanged

\* write_with_pretty: write_header(..)?, on the sink itself
IoJsonWriteHeader ==
    /\ wpc = "start"
    /\ io_format = "json"
    /\ LET r == sink_op(output, 1) IN
       /\ output' = r.out
       /\ IF r.ok
          THEN /\ wpc' = "rows"
               /\ written' = IF io_rows = 0 THEN 0 ELSE 1
               /\ UNCHANGED io_result
          ELSE /\ wpc' = "done"
               /\ io_result' = Err("io")
               /\ UNCHANGED written
    /\ UNCHANGED <<io_format, io_rows, wtr>>
    /\ IoUnchanged

\* write_with_pretty: write_row(..)? for the next row: a comma unless it is
\* the first row, then the object
IoJsonWriteRow ==
    /\ wpc = "rows"
    /\ written < io_rows
    /\ LET c == IF written > 1 THEN sink_op(output, 0) ELSE [ok |-> TRUE, out |-> output]
           r == IF c.ok THEN sink_op(c.out, 1) ELSE c
       IN /\ output' = r.out
          /\ IF r.ok
             THEN /\ written' = written + 1
                  /\ UNCHANGED <<wpc, io_result>>
             ELSE /\ wpc' = "done"
                  /\ io_result' = Err("io")
                  /\ UNCHANGED written
    /\ UNCHANGED <<io_format, io_rows, wtr>>
    /\ IoUnchanged

\* write_with_pretty: finalize()?: the closing write, then flush
IoJsonFinalize ==
    /\ wpc = "rows"
    /\ written = io_rows
    /\ LET w == sink_op(output, 1)
           f == IF w.ok THEN sink_op(w.out, 0) ELSE w
       IN /\ output' = f.out
          /\ io_result' = IF f.ok THEN Ok("unit") ELSE Err("io")
    /\ wpc' = "done"
    /\ UNCHANGED <<io_format, io_rows, written, wtr>>
    /\ IoUnchanged

IoNext ==
    \/ IoWriteRecord
    \/ IoCsvReturn
    \/ IoTabFlush
    \/ IoJsonWriteHeader
    \/ IoJsonWriteRow
    \/ IoJsonFinalize

IoSpec == IoInit /\ [][IoNext]_vars

\* C22: for each of the CSV, TSV and JSON writers, if any write or flush on
\* the underlying sink fails at any point (including buffered data flushed at
\* the end), the writer's call returns an error; no writer returns Ok after an
\* I/O failure.
C22_NoOkAfterIoFailure ==
    (wpc = "done" /\ output.failed) => ~io_result.ok

\* The JSON writer alone: every failed write or flush is returned
C22_JsonPropagates ==
    (wpc = "done" /\ io_format = "json" /\ output.failed) => ~io_result.ok

\* tab::write: Ok is returned only with every row delivered to the sink
C22_TabDeliversOrFails ==
    (wpc = "done" /\ io_format = "tab" /\ io_result.ok) => output.delivered = io_rows

\* csv::write has returned Ok although the rows never reached the sink
C22_CsvLosesBufferedRows ==
    /\ wpc = "done"
    /\ io_format = "csv"
    /\ io_rows = 2
    /\ io_result.ok
    /\ output.failed
    /\ output.delivered = 0

\* ------------------------------------------------------------ the orchestrator
\* What create_database_connection and pool.get_conn can answer
ConnectAnswers ==
    {Ok("Pool"),
     Err(<<"D", "a", "t", "a", "b", "a", "s", "e", " ", "c", "o", "n", "n", "e", "c", "t", "i", "o", "n", " ", "p", "o", "o", "l", " ", "c", "r", "e", "a", "t", "i", "o", "n", " ", "f", "a", "i", "l", "e", "d", ":", " ", "D", "a", "t", "a", "b", "a", "s", "e", " ", "c", "o", "n", "n", "e", "c", "t", "i", "o", "n", " ", "f", "a", "i", "l", "e", "d", ":", " ", "T", "L", "S", " ", "c", "o", "n", "n", "e", "c", "t", "i", "o", "n", " ", "f", "a", "i", "l", "e", "d", ":", " ", "C", "o", "n", "n", "e", "c", "t", "i", "o", "n", " ", "r", "e", "f", "u", "s", "e", "d">>),
     Err(<<"D", "a", "t", "a", "b", "a", "s", "e", " ", "c", "o", "n", "n", "e", "c", "t", "i", "o", "n", " ", "p", "o", "o", "l", " ", "c", "r", "e", "a", "t", "i", "o", "n", " ", "f", "a", "i", "l", "e", "d", ":", " ", "T", "L", "S", " ", "c", "o", "n", "f", "i", "g", "u", "r", "a", "t", "i", "o", "n", " ", "e", "r", "r", "o", "r", ":", " ", "M", "u", "t", "u", "a", "l", "l", "y", " ", "e", "x", "c", "l", "u", "s", "i", "v", "e", " ", "T", "L", "S", " ", "f", "l", "a", "g", "s", " ", "p", "r", "o", "v", "i", "d", "e", "d", ":", " ", "-", "-", "t", "l", "s", "-", "c", "a", "-", "f", "i", "l", "e", ",", " ", "-", "-", "a", "l", "l", "o", "w", "-", "i", "n", "v", "a", "l", "i", "d", "-", "c", "e", "r", "t", "i", "f", "i", "c", "a", "t", "e">>),
     Err(<<"D", "a", "t", "a", "b", "a", "s", "e", " ", "c", "o", "n", "n", "e", "c", "t", "i", "o", "n", " ", "f", "a", "i", "l", "e", "d", ":", " ", "A", "c", "c", "e", "s", "s", " ", "d", "e", "n", "i", "e", "d", " ", "f", "o", "r", " ", "u", "s", "e", "r">>)}

\* What conn.query can answer: no row, rows, or an error (with the message
\* main builds for it)
QueryAnswers ==
    {Ok("empty"), Ok("rows"),
     Err(<<"S", "Q", "L", " ", "s", "y", "n", "t", "a", "x", " ", "e", "r", "r", "o", "r", " ", "i", "n", " ", "q", "u", "e", "r", "y">>),
     Err(<<"T", "a", "b", "l", "e", " ", "d", "o", "e", "s", " ", "n", "o", "t", " ", "e", "x", "i", "s", "t">>),
     Err(<<"C", "o", "n", "n", "e", "c", "t", "i", "o", "n", " ", "l", "o", "s", "t", " ", "d", "u", "r", "i", "n", "g", " ", "q", "u", "e", "r", "y">>)}

\* What the writer can answer
WriteAnswers == {Ok("unit"), Err(<<"N", "o", " ", "s", "p", "a", "c", "e", " ", "l", "e", "f", "t", " ", "o", "n", " ", "d", "e", "v", "i", "c", "e", " ", "(", "o", "s", " ", "e", "r", "r", "o", "r", " ", "2", "8", ")">>)}

CreateFailed == <<"F", "a", "i", "l", "e", "d", " ", "t", "o", " ", "c", "r", "e", "a", "t", "e", " ", "o", "u", "t", "p", "u", "t", " ", "f", "i", "l", "e", ":", " ", "P", "e", "r", "m", "i", "s", "s", "i", "o", "n", " ", "d", "e", "n", "i", "e", "d", " ", "(", "o", "s", " ", "e", "r", "r", "o", "r", " ", "1", "3", ")">>

MainInit ==
    /\ TlsIdle
    /\ ErrIdle
    /\ ValIdle
    /\ PipeIdle
    /\ ExitIdle
    /\ IoIdle
    /\ mpc = "start"
    /\ env \in [file : {"absent", "old"},
                connect : ConnectAnswers,
                query : QueryAnswers,
                convert : {"ok", "panic"},
                create : BOOLEAN,
                write : WriteAnswers]
    /\ allow_empty \in BOOLEAN
    /\ out_file = env.file
    /\ steps = <<>>
    /\ main_exit = -1

MainUnchanged == UNCHANGED <<tlsVars, errVars, valVars, pipeVars, exitVars, ioVars>>

\* create_database_connection and pool.get_conn, or exit_with_error
MainConnect ==
    /\ mpc = "start"
    /\ steps' = Append(steps, "connect")
    /\ IF env.connect.ok
       THEN mpc' = "connected" /\ UNCHANGED main_exit
       ELSE mpc' = "exited" /\ main_exit' = map_error_to_exit_code(env.connect.err)
    /\ UNCHANGED <<env, allow_empty, out_file>>
    /\ MainUnchanged

\* conn.query, or exit_with_error
MainQuery ==
    /\ mpc = "connected"
    /\ steps' = Append(steps, "query")
    /\ IF env.query.ok
       THEN mpc' = "result" /\ UNCHANGED main_exit
       ELSE mpc' = "exited" /\ main_exit' = map_error_to_exit_code(env.query.err)
    /\ UNCHANGED <<env, allow_empty, out_file>>
    /\ MainUnchanged

\* if result.is_empty() creating the file whether or not --allow-empty is set
MainEmptyResultCreatesFirst ==
    /\ mpc = "result"
    /\ env.query.val = "empty"
    /\ steps' = Append(steps, "create")
    /\ out_file' = IF env.create THEN "truncated" ELSE out_file
    /\ IF allow_empty
       THEN mpc' = "write" /\ UNCHANGED main_exit
       ELSE mpc' = "exited" /\ main_exit' = EXIT_NO_ROWS
    /\ UNCHANGED <<env, allow_empty>>
    /\ MainUnchanged

\* if result.is_empty(): go on to the output file with --allow-empty, or
\* exit_no_rows
MainEmptyResult ==
    /\ mpc = "result"
    /\ env.query.val = "empty"
    /\ IF allow_empty
       THEN mpc' = "create" /\ UNCHANGED main_exit
       ELSE mpc' = "exited" /\ main_exit' = EXIT_NO_ROWS
    /\ UNCHANGED <<env, allow_empty, out_file, steps>>
    /\ MainUnchanged

\* rows_to_strings(result): it returns the rows, or panics (exit code 101)
MainRowsToStrings ==
    /\ mpc = "result"
    /\ env.query.val = "rows"
    /\ steps' = Append(steps, "convert")
    /\ IF env.convert = "ok"
       THEN mpc' = "create" /\ UNCHANGED main_exit
       ELSE mpc' = "exited" /\ main_exit' = 101
    /\ UNCHANGED <<env, allow_empty, out_file>>
    /\ MainUnchanged

\* File::create(&output_file): the file is created or truncated, or
\* exit_with_error
MainCreateFile ==
    /\ mpc = "create"
    /\ steps' = Append(steps, "create")
    /\ IF env.create
       THEN /\ out_file' = "truncated"
            /\ mpc' = "write"
            /\ UNCHANGED main_exit
       ELSE /\ mpc' = "exited"
            /\ main_exit' = map_error_to_exit_code(CreateFailed)
            /\ UNCHANGED out_file
    /\ UNCHANGED <<env, allow_empty>>
    /\ MainUnchanged

\* write_output, then exit_success, or exit_with_error
MainWriteOutput ==
    /\ mpc = "write"
    /\ steps' = Append(steps, "write")
    /\ mpc' = "exited"
    /\ IF env.write.ok
       THEN out_file' = "written" /\ main_exit' = EXIT_SUCCESS
       ELSE out_file' = "partial" /\ main_exit' = map_error_to_exit_code(env.write.err)
    /\ UNCHANGED <<env, allow_empty>>
    /\ MainUnchanged

MainNext ==
    \/ MainConnect
    \/ MainQuery
    \/ MainEmptyResult
    \/ MainRowsToStrings
    \/ MainCreateFile
    \/ MainWriteOutput

MainSpec == MainInit /\ [][MainNext]_vars

\* `a` stands before `b` in the calls made
Before(a, b) ==
    \E i, j \in DOMAIN steps : i < j /\ steps[i] = a /\ steps[j] = b
Did(a) == \E i \in DOMAIN steps : steps[i] = a
Exited == mpc = "exited"

\* C28: in the orchestrator the output file is created (and truncated) only
\* after the connection and the query have succeeded and only if the result
\* set is non-empty or --allow-empty is set; a failed connection or query, or
\* an empty result without --allow-empty (which exits with code 1), never
\* creates or modifies the output file, and exit code 0 is reached only after
\* the writer returned Ok.
C28_FileOnlyAfterQuery ==
    /\ (Did("create") \/ out_file # env.file) =>
          /\ env.connect.ok /\ env.query.ok
          /\ Before("connect", "query") /\ Before("query", "create")
          /\ env.query.val = "rows" \/ allow_empty
    /\ (Exited /\ (~env.connect.ok \/ ~env.query.ok)) =>
          (out_file = env.file /\ ~Did("create") /\ main_exit # 0)
    /\ (Exited /\ env.connect.ok /\ env.query.ok
               /\ env.query.val = "empty" /\ ~allow_empty) =>
          (out_file = env.file /\ ~Did("create") /\ main_exit = 1)
    /\ main_exit = 0 =>
          /\ Exited
          /\ steps[Len(steps)] = "write"
          /\ Before("create", "write")
          /\ env.write.ok

C28_Witness ==
    /\ Exited
    /\ env.file = "old"
    /\ env.connect.ok
    /\ env.query = Ok("empty")
    /\ ~allow_empty
    /\ out_file = "old"
    /\ main_exit = 1

====
